---- MODULE Spec2Model ----
(***************************************************************************)
(* A model of JupyterSyntheticDataAgent                                    *)
(* (src/synthetic_data_generator/core/agent.py): the session state, the    *)
(* column profiler, the two row synthesizers and the product deriver.      *)
(*                                                                         *)
(* Conventions.                                                            *)
(*   - A text value is a sequence of chunks (strings); a chunk is one      *)
(*     character, except the literal pieces an f-string pastes in whole    *)
(*     ("user", a column name).                                            *)
(*   - A number is an integer; where Python computes a real, the model     *)
(*     keeps its floor.                                                    *)
(*   - An optional attribute (None in Python) is the empty sequence, a set *)
(*     one a one-element sequence.                                         *)
(*   - A pandas DataFrame of the sample is a sequence of columns           *)
(*     [name, dtype, values, nulls]: nulls is the set of the positions     *)
(*     whose cell is null (NaN / None / NaT).  A generated DataFrame is a  *)
(*     sequence of [name, values]; pd.DataFrame() is <<>>.                 *)
(*   - The variables sample_data .. outcome are one session, whose calls   *)
(*     run one after the other.  np_random and agents are the sessions of  *)
(*     one process whose generate_data calls interleave between two numpy  *)
(*     calls; there a session is its declarations, its call in progress    *)
(*     and the table it last returned; each makes at most MaxCalls calls.  *)
(***************************************************************************)
EXTENDS Integers, Sequences, FiniteSets, TLC

VARIABLES
    sample_data,        \* self.sample_data       (agent.py:31)
    metadata,           \* self.metadata          (agent.py:32)
    patterns,           \* self.patterns          (agent.py:33)
    customer_variables, \* self.customer_variables(agent.py:34)
    primary_product,    \* self.primary_product   (agent.py:35)
    generated_data,     \* self.generated_data    (agent.py:36)
    generation_mode,    \* self.generation_mode   (agent.py:37)
    outcome,            \* what the last call returned / reported to its caller
    np_random,          \* the state of numpy's global generator (np.random)
    agents,             \* the sessions that share np_random within one process
    SESSION_CONTEXTS,   \* the contexts by session (conversation_handler.py:24)
    tasks,              \* the calls of handle_message / handle_message_stream
    context,            \* the SyntheticDataContext the tools are run with
    tool_return         \* what the last tool call returned

\* The fields of the chat service, which the data agent never touches.
basicVars == <<SESSION_CONTEXTS, tasks, context, tool_return>>

\* The fields of the data agent and of its callers.
agentVars == <<sample_data, metadata, patterns, customer_variables, primary_product,
               generated_data, generation_mode, outcome, np_random, agents>>

vars == <<sample_data, metadata, patterns, customer_variables, primary_product,
          generated_data, generation_mode, outcome, np_random, agents,
          SESSION_CONTEXTS, tasks, context, tool_return>>

(***************************************************************************)
(* Bounds of the model.                                                    *)
(***************************************************************************)
MaxRows == 2
MaxSeed == 1
MaxNow == 1
MaxCalls == 2

\* The calls of the chat handlers, and the events one streamed run reads from
\* the agent runner.
MaxTasks == 2

MaxEvents == 2

\* The tool calls recorded in one context's processing history.
MaxHistory == 3

RowCounts == (0 - 1)..MaxRows
Seeds == 0..MaxSeed
Clock == 0..MaxNow

(***************************************************************************)
(* Small helpers.                                                          *)
(***************************************************************************)
Min2(a, b) == IF a <= b THEN a ELSE b

Max2(a, b) == IF a >= b THEN a ELSE b

Range(s) == {s[i] : i \in DOMAIN s}

RECURSIVE SumSeq(_)
SumSeq(s) == IF s = <<>> THEN 0 ELSE Head(s) + SumSeq(Tail(s))

\* The decimal digits of a natural number, most significant first.
DigitChar == <<"0", "1", "2", "3", "4", "5", "6", "7", "8", "9">>

RECURSIVE Digits(_)
Digits(v) == IF v < 10 THEN <<DigitChar[v + 1]>>
             ELSE Append(Digits(v \div 10), DigitChar[(v % 10) + 1])

\* Python's format spec "{i:0<w>d}" for i >= 0: left-padded with zeros to w.
RECURSIVE ZeroPad(_, _)
ZeroPad(d, w) == IF Len(d) >= w THEN d ELSE ZeroPad(<<"0">> \o d, w)

Format05d(i) == ZeroPad(Digits(i), 5)

(***************************************************************************)
(* numpy's process-wide generator.  np.random.seed(seed) sets its state;   *)
(* each variate drawn advances it by one step.  The state is a residue     *)
(* modulo RngMod and the k-th variate after seeding is U(seed, k), standing *)
(* for the uniform real U / RngMod in [0, 1).                              *)
(***************************************************************************)
RngMod == 32

RngSeed(seed) == (26 * seed + 5) % RngMod

RngStep(s) == (5 * s + 3) % RngMod

RECURSIVE RngState(_, _)
RngState(seed, k) == IF k = 0 THEN RngSeed(seed) ELSE RngStep(RngState(seed, k - 1))

U(seed, k) == RngState(seed, k)

\* floor(span * u / RngMod), the variate u / RngMod scaled to a span, computed
\* by quotient and remainder so that an 8-digit span stays within 32 bits.
Scale(span, u) == (span \div RngMod) * u + (((span % RngMod) * u) \div RngMod)

\* np.random.uniform(low, high): low + (high - low) * u, u in [0, 1).
\* numpy does not require low <= high.
Uniform(low, high, u) == low + Scale(high - low, u)

\* np.random.normal(mean, std): mean + std * z for a standard normal z;
\* ZTable quantises z so that |z| > 3 happens.
ZTable == <<0 - 4, 0 - 3, 0 - 2, 0 - 2, 0 - 1, 0 - 1, 0 - 1, 0, 0, 0, 1, 1, 1, 2, 3, 4>>

Normal(mean, std, u) == mean + std * ZTable[(u % Len(ZTable)) + 1]

\* np.random.exponential(scale): scale * e for a standard exponential e >= 0.
ETable == <<0, 0, 0, 0, 0, 1, 1, 1, 1, 1, 2, 2, 3, 4, 5, 7>>

Exponential(scale, u) == scale * ETable[(u % Len(ETable)) + 1]

\* np.random.randint(low, high): an integer of [low, high); needs low < high.
RandInt(low, high, u) == low + Scale(high - low, u)

\* np.random.choice(a) / np.random.choice(a, n) without p: a[randint(0, len(a))].
Choice(a, u) == a[RandInt(0, Len(a), u) + 1]

\* np.random.choice(a, n, p=p): the first index whose cumulated probability
\* exceeds the uniform variate.  w are the unnormalised weights of p.
RECURSIVE PrefixSum(_, _)
PrefixSum(w, i) == IF i = 0 THEN 0 ELSE w[i] + PrefixSum(w, i - 1)

ChoiceP(a, w, u) ==
    LET total == PrefixSum(w, Len(w))
        hit == {i \in 1..Len(a) : u * total < RngMod * PrefixSum(w, i)}
    IN a[CHOOSE i \in hit : \A j \in hit : i <= j]

\* np.clip(v, lo, hi) == minimum(maximum(v, lo), hi).
Clip(v, lo, hi) == Min2(Max2(v, lo), hi)

(***************************************************************************)
(* A generated table: the dict synthetic_data, then pd.DataFrame(dict).    *)
(***************************************************************************)
\* synthetic_data[name] = values: a new key goes last, an old key keeps its place.
DictSet(t, name, values) ==
    IF \E i \in DOMAIN t : t[i].name = name
    THEN [i \in DOMAIN t |-> IF t[i].name = name
                             THEN [name |-> name, values |-> values] ELSE t[i]]
    ELSE Append(t, [name |-> name, values |-> values])

\* len(DataFrame).
NumRows(t) == IF t = <<>> THEN 0 ELSE Len(t[1].values)

ColumnNames(t) == [i \in DOMAIN t |-> t[i].name]

HasColumn(t, name) == \E i \in DOMAIN t : t[i].name = name

ColumnOf(t, name) == (CHOOSE i \in DOMAIN t : t[i].name = name)

ValuesOf(t, name) == t[ColumnOf(t, name)].values

(***************************************************************************)
(* Definition mode: the declarations and the product.                      *)
(***************************************************************************)
\* str.strip(): leading and trailing blanks removed.
RECURSIVE LStrip(_)
LStrip(s) == IF s /= <<>> /\ Head(s) = " " THEN LStrip(Tail(s)) ELSE s

RECURSIVE RStrip(_)
RStrip(s) == IF s /= <<>> /\ s[Len(s)] = " " THEN RStrip(SubSeq(s, 1, Len(s) - 1)) ELSE s

Strip(s) == RStrip(LStrip(s))

\* str.split(','): always at least one piece ("".split(',') == ['']).
RECURSIVE SplitComma(_)
SplitComma(s) ==
    IF \E i \in DOMAIN s : s[i] = ","
    THEN LET i == CHOOSE j \in DOMAIN s : s[j] = "," /\ \A h \in 1..(j - 1) : s[h] /= ","
         IN <<SubSeq(s, 1, i - 1)>> \o SplitComma(SubSeq(s, i + 1, Len(s)))
    ELSE <<s>>

\* float(input(...) or default): an empty answer takes the default, an answer
\* that is no number raises ValueError.
FloatRaises(answer) == answer.kind = "bad"

FloatOr(answer, default) == IF answer.kind = "empty" THEN default ELSE answer.v

\* type_mapping.get(type_choice, 'text').
TypeMapping(choice) ==
    CASE choice = "1" -> "categorical"
      [] choice = "2" -> "numerical"
      [] choice = "4" -> "email"
      [] choice = "5" -> "phone"
      [] choice = "6" -> "date"
      [] OTHER -> "text"

\* CustomerVariable(name=, data_type=, description=): the optional fields unset.
CustomerVariable(name, data_type) ==
    [name |-> name, data_type |-> data_type, possible_values |-> <<>>,
     min_value |-> 0, max_value |-> 0, distribution |-> "None"]

\* One pass of the while-loop body for an answered name: the variable built from
\* the answers, and whether a float() raised before it was appended.
VariableRaises(e) ==
    TypeMapping(e.type_choice) = "numerical"
    /\ (FloatRaises(e.min_in) \/ FloatRaises(e.max_in))

VariableFrom(e) ==
    LET data_type == TypeMapping(e.type_choice)
        variable == CustomerVariable(e.name, data_type)
    IN IF data_type = "categorical"
       THEN [variable EXCEPT !.possible_values =
                [i \in DOMAIN SplitComma(e.values_input) |-> Strip(SplitComma(e.values_input)[i])]]
       ELSE IF data_type = "numerical"
       THEN [variable EXCEPT !.min_value = FloatOr(e.min_in, 0),
                             !.max_value = FloatOr(e.max_in, 100),
                             !.distribution = IF e.dist_choice = "2" THEN "normal" ELSE "uniform"]
       ELSE variable

\* The while-loop of define_variables_interactive over the answers typed:
\* the list built and whether the loop ended by an exception.
RECURSIVE DefineLoop(_, _)
DefineLoop(script, acc) ==
    IF script = <<>> \/ Head(script).name = ""
    THEN [variables |-> acc, raised |-> FALSE]
    ELSE IF VariableRaises(Head(script))
    THEN [variables |-> acc, raised |-> TRUE]
    ELSE IF Head(script).more
    THEN DefineLoop(Tail(script), Append(acc, VariableFrom(Head(script))))
    ELSE [variables |-> Append(acc, VariableFrom(Head(script))), raised |-> FALSE]

\* ProductDefinition(...) from the answers; the probability is counted in tenths.
ProductRaises(a) ==
    FloatRaises(a.min_in) \/ FloatRaises(a.max_in) \/ FloatRaises(a.prob_in)

ProductFrom(a) ==
    [name |-> a.name, category |-> a.category,
     price_range |-> <<FloatOr(a.min_in, 0), FloatOr(a.max_in, 100)>>,
     features |-> [i \in DOMAIN SplitComma(a.features_input) |-> Strip(SplitComma(a.features_input)[i])],
     purchase_probability |-> FloatOr(a.prob_in, 8)]

ProbDen == 10

(***************************************************************************)
(* _generate_from_definition_advanced.  Each column is                     *)
(* [ok, values, used]: ok is FALSE when numpy raised, used is the number   *)
(* of variates the column drew; k is the number drawn before it.           *)
(***************************************************************************)
EmailDomains == <<"gmail.com", "yahoo.com", "outlook.com", "empresa.com">>

PhonePrefix == <<"+", "3", "4", "-", "6">>

PhoneLow == 10000000

PhoneHigh == 99999999

DateSpan == 730

Raised == [ok |-> FALSE, skipped |-> FALSE, values |-> <<>>, used |-> 0]

\* Mutant: the suffix is drawn from 0 up.
PhoneValueFromZero(u) == PhonePrefix \o Digits(RandInt(0, PhoneHigh, u))

\* f"+34-6{np.random.randint(10000000, 99999999)}" for the variate u.
PhoneValue(u) == PhonePrefix \o Digits(RandInt(PhoneLow, PhoneHigh, u))

DefinitionColumn(variable, n, seed, k, now) ==
    LET u(i) == U(seed, k + i - 1)
    IN CASE variable.data_type = "categorical" ->
              IF n < 0 \/ (variable.possible_values = <<>> /\ n /= 0) THEN Raised
              ELSE [ok |-> TRUE, used |-> n,
                    values |-> [i \in 1..n |-> Choice(variable.possible_values, u(i))]]
         [] variable.data_type = "numerical" /\ variable.distribution = "normal" ->
              LET mean == (variable.min_value + variable.max_value) \div 2
                  std == (variable.max_value - variable.min_value) \div 6
              IN IF n < 0 \/ std < 0 THEN Raised
                 ELSE [ok |-> TRUE, used |-> n,
                       values |-> [i \in 1..n |->
                           Clip(Normal(mean, std, u(i)), variable.min_value, variable.max_value)]]
         [] variable.data_type = "numerical" /\ variable.distribution /= "normal" ->
              IF n < 0 THEN Raised
              ELSE [ok |-> TRUE, used |-> n,
                    values |-> [i \in 1..n |->
                        Uniform(variable.min_value, variable.max_value, u(i))]]
         [] variable.data_type = "email" ->
              [ok |-> TRUE, used |-> Max2(n, 0),
               values |-> [i \in 1..n |->
                   <<"cliente">> \o Format05d(i - 1) \o <<"@", Choice(EmailDomains, u(i))>>]]
         [] variable.data_type = "phone" ->
              [ok |-> TRUE, used |-> Max2(n, 0), values |-> [i \in 1..n |-> PhoneValue(u(i))]]
         [] variable.data_type = "date" ->
              [ok |-> TRUE, used |-> Max2(n, 0),
               values |-> [i \in 1..n |-> (now - 365 * 2) + RandInt(0, DateSpan, u(i))]]
         [] OTHER ->
              [ok |-> TRUE, used |-> 0,
               values |-> [i \in 1..n |-> <<variable.name, "_">> \o Format05d(i - 1)]]

\* The for-loop over self.customer_variables: [ok, table, k].
RECURSIVE DefinitionColumns(_, _, _, _, _)
DefinitionColumns(variables, n, seed, now, acc) ==
    IF variables = <<>> \/ ~acc.ok THEN acc
    ELSE LET col == DefinitionColumn(Head(variables), n, seed, acc.k, now)
         IN DefinitionColumns(Tail(variables), n, seed, now,
                [ok |-> col.ok,
                 table |-> IF col.ok THEN DictSet(acc.table, Head(variables).name, col.values)
                           ELSE acc.table,
                 k |-> acc.k + col.used])

\* The four product columns (agent.py:468-484): one purchase draw per row, then
\* one price draw for each purchased row, in row order.
Purchases(product, n, seed, k) ==
    [i \in 1..n |-> U(seed, k + i - 1) * ProbDen < product.purchase_probability * RngMod]

PurchasedBefore(purchases, i) == Cardinality({j \in 1..(i - 1) : purchases[j]})

\* Mutant: the price is drawn for every row, whatever its purchase flag.
ProductColumnsUncoupled(table, product, n, seed, k) ==
    LET purchases == Purchases(product, n, seed, k)
        t1 == DictSet(table, "compro_producto", purchases)
        t2 == DictSet(t1, "producto_comprado",
                  [i \in 1..n |-> IF purchases[i] THEN product.name ELSE <<"Ninguno">>])
        t3 == DictSet(t2, "categoria_producto",
                  [i \in 1..n |-> IF purchases[i] THEN product.category ELSE <<"N/A">>])
    IN DictSet(t3, "precio_pagado",
           [i \in 1..n |-> Uniform(product.price_range[1], product.price_range[2],
                                   U(seed, k + n + i - 1))])

\* Mutant: the price column is added only when some row purchased.
ProductColumnsIfPurchased(table, product, n, seed, k) ==
    LET purchases == Purchases(product, n, seed, k)
        price(i) == Uniform(product.price_range[1], product.price_range[2],
                            U(seed, k + n + PurchasedBefore(purchases, i)))
        t1 == DictSet(table, "compro_producto", purchases)
        t2 == DictSet(t1, "producto_comprado",
                  [i \in 1..n |-> IF purchases[i] THEN product.name ELSE <<"Ninguno">>])
        t3 == DictSet(t2, "categoria_producto",
                  [i \in 1..n |-> IF purchases[i] THEN product.category ELSE <<"N/A">>])
    IN IF \E i \in 1..n : purchases[i]
       THEN DictSet(t3, "precio_pagado", [i \in 1..n |-> IF purchases[i] THEN price(i) ELSE 0])
       ELSE t3

ProductColumns(table, product, n, seed, k) ==
    LET purchases == Purchases(product, n, seed, k)
        price(i) == Uniform(product.price_range[1], product.price_range[2],
                            U(seed, k + n + PurchasedBefore(purchases, i)))
        t1 == DictSet(table, "compro_producto", purchases)
        t2 == DictSet(t1, "producto_comprado",
                  [i \in 1..n |-> IF purchases[i] THEN product.name ELSE <<"Ninguno">>])
        t3 == DictSet(t2, "categoria_producto",
                  [i \in 1..n |-> IF purchases[i] THEN product.category ELSE <<"N/A">>])
    IN DictSet(t3, "precio_pagado", [i \in 1..n |-> IF purchases[i] THEN price(i) ELSE 0])

\* [ok, table]: ok is FALSE when an exception left the method.
generate_from_definition_advanced(variables, product, n, seed, now) ==
    LET cols == DefinitionColumns(variables, n, seed, now,
                                  [ok |-> TRUE, table |-> <<>>, k |-> 0])
    IN IF ~cols.ok THEN [ok |-> FALSE, table |-> <<>>]
       ELSE IF product = <<>> THEN [ok |-> TRUE, table |-> cols.table]
       ELSE IF n < 0 THEN [ok |-> FALSE, table |-> <<>>]
       ELSE [ok |-> TRUE, table |-> ProductColumns(cols.table, product[1], n, seed, cols.k)]

(***************************************************************************)
(* Sample mode: pandas on one column of the sample.                        *)
(***************************************************************************)
\* Series.dropna(): the non-null cells, in order.
\* Mutant: the null cells are kept (value_counts(dropna=False)).
KeepNa(col) == col.values

RECURSIVE DropNaFrom(_, _)
DropNaFrom(col, i) ==
    IF i > Len(col.values) THEN <<>>
    ELSE (IF i \in col.nulls THEN <<>> ELSE <<col.values[i]>>) \o DropNaFrom(col, i + 1)

DropNa(col) == DropNaFrom(col, 1)

\* Series.head(k).
Head_k(s, k) == SubSeq(s, 1, Min2(k, Len(s)))

\* Series.unique(): the distinct values in order of first appearance.
RECURSIVE Unique(_)
Unique(s) ==
    IF s = <<>> THEN <<>>
    ELSE LET rest == Unique(SubSeq(s, 1, Len(s) - 1))
             x == s[Len(s)]
         IN IF x \in Range(rest) THEN rest ELSE Append(rest, x)

CountOf(s, x) == Cardinality({i \in DOMAIN s : s[i] = x})

\* Series.value_counts(): [value, count] by falling count, equal counts in order
\* of first appearance (a stable sort of the distinct values).
RECURSIVE InsertByCount(_, _)
InsertByCount(sorted, pair) ==
    IF sorted = <<>> THEN <<pair>>
    ELSE IF sorted[Len(sorted)].count >= pair.count THEN Append(sorted, pair)
    ELSE Append(InsertByCount(SubSeq(sorted, 1, Len(sorted) - 1), pair), sorted[Len(sorted)])

RECURSIVE SortByCount(_)
SortByCount(pairs) ==
    IF pairs = <<>> THEN <<>>
    ELSE InsertByCount(SortByCount(SubSeq(pairs, 1, Len(pairs) - 1)), pairs[Len(pairs)])

ValueCounts(s) ==
    LET values == Unique(s)
    IN SortByCount([i \in DOMAIN values |-> [value |-> values[i], count |-> CountOf(s, values[i])]])

\* str.contains('@').
ContainsAt(text) == \E i \in DOMAIN text : text[i] = "@"

\* str.extract(r'@(.+)')[0]: what follows the leftmost '@', when something does
\* (<<>> stands for NaN: no match).
ExtractDomain(text) ==
    IF ~ContainsAt(text) THEN <<>>
    ELSE LET i == CHOOSE j \in DOMAIN text :
                      text[j] = "@" /\ \A h \in 1..(j - 1) : text[h] /= "@"
         IN SubSeq(text, i + 1, Len(text))

\* str.match(r'^\+?[\d\s\-\(\)]+$').
PhoneChars == {"0", "1", "2", "3", "4", "5", "6", "7", "8", "9", " ", "-", "(", ")"}

MatchesPhone(text) ==
    LET body == IF text /= <<>> /\ Head(text) = "+" THEN Tail(text) ELSE text
    IN body /= <<>> /\ \A i \in DOMAIN body : body[i] \in PhoneChars

\* [s[i] : keep(s[i])] as a sequence.
RECURSIVE NonEmptyOnly(_)
NonEmptyOnly(s) ==
    IF s = <<>> THEN <<>>
    ELSE (IF Head(s) = <<>> THEN <<>> ELSE <<Head(s)>>) \o NonEmptyOnly(Tail(s))

\* Timestamps count hours.  str(Timestamp) writes the day and the time of day,
\* pd.to_datetime reads them back.
HoursPerDay == 24

TimestampStr(t) == <<t \div HoursPerDay, t % HoursPerDay>>

ToDatetime(text) == text[1] * HoursPerDay + text[2]

\* (end - start).days: whole days, rounded down.
Days(delta) == delta \div HoursPerDay

SeqMin(s) == CHOOSE x \in Range(s) : \A y \in Range(s) : x <= y

SeqMax(s) == CHOOSE x \in Range(s) : \A y \in Range(s) : x >= y

\* The largest r with r * r <= v.
RECURSIVE ISqrtFrom(_, _)
ISqrtFrom(v, r) == IF (r + 1) * (r + 1) > v THEN r ELSE ISqrtFrom(v, r + 1)

ISqrt(v) == ISqrtFrom(v, 0)

(***************************************************************************)
(* Series.skew() is G = n * sqrt(n - 1) / (n - 2) * m3 / m2 ^ 1.5 with m2,  *)
(* m3 the sums of the squared and cubed deviations from the mean; NaN for   *)
(* n < 3 and 0 for m2 = 0.  With d[i] = n * x[i] - sum(x), M2 = sum d^2 and  *)
(* M3 = sum d^3, G^2 = n^2 (n - 1) M3^2 / ((n - 2)^2 M2^3): the thresholds  *)
(* are compared exactly in integers.                                       *)
(***************************************************************************)
Dev(s) == [i \in DOMAIN s |-> Len(s) * s[i] - SumSeq(s)]

M2(s) == SumSeq([i \in DOMAIN s |-> Dev(s)[i] * Dev(s)[i]])

M3(s) == SumSeq([i \in DOMAIN s |-> Dev(s)[i] * Dev(s)[i] * Dev(s)[i]])

SkewIsNaN(s) == Len(s) < 3

\* skew() > 1
SkewAboveOne(s) ==
    LET n == Len(s)
    IN /\ ~SkewIsNaN(s)
       /\ M2(s) > 0
       /\ M3(s) > 0
       /\ n * n * (n - 1) * M3(s) * M3(s) > (n - 2) * (n - 2) * M2(s) * M2(s) * M2(s)

\* abs(skew()) < 0.5
SkewBelowHalf(s) ==
    LET n == Len(s)
    IN /\ ~SkewIsNaN(s)
       /\ \/ M2(s) = 0
          \/ 4 * n * n * (n - 1) * M3(s) * M3(s) < (n - 2) * (n - 2) * M2(s) * M2(s) * M2(s)

\* The cascade without its test of the minimum.
ProbableDistributionAnyMin(s) ==
    IF SkewAboveOne(s) THEN "exponential"
    ELSE IF SkewBelowHalf(s) THEN "normal"
    ELSE "uniform"

\* The distribution cascade (agent.py:156-161).
ProbableDistribution(s) ==
    IF SeqMin(s) >= 0 /\ SkewAboveOne(s) THEN "exponential"
    ELSE IF SkewBelowHalf(s) THEN "normal"
    ELSE "uniform"

\* mean() and std() (ddof = 1) of at least two numbers, rounded down.
Mean(s) == SumSeq(s) \div Len(s)

Std(s) == ISqrt(M2(s) \div (Len(s) * Len(s) * (Len(s) - 1)))

TopValues == 10

TopDomains == 5

SampleValues == 5

LongTextLength == 50

(***************************************************************************)
(* _extract_advanced_patterns.  A profile is a record whose fields are the *)
(* keys of the Python dict; an ordered dict of counts is a sequence of      *)
(* [value, count].  The median and the quartiles, which nothing reads, are  *)
(* left out of 'statistics'.                                               *)
(***************************************************************************)
\* The .str accessor raises AttributeError on an object column of non-strings.
ColumnRaises(col) == col.dtype = "object" /\ ~col.strings

\* Mutant: the phone rule is tried before the email rule.
TextTypePhoneFirst(non_null) ==
    IF \E i \in DOMAIN non_null : MatchesPhone(non_null[i]) THEN "phone"
    ELSE IF \E i \in DOMAIN non_null : ContainsAt(non_null[i]) THEN "email"
    ELSE IF non_null /= <<>>
            /\ SumSeq([i \in DOMAIN non_null |-> Len(non_null[i])])
                   > LongTextLength * Len(non_null) THEN "long_text"
    ELSE "categorical"

\* The if/elif chain over an object column (agent.py:120-133).
TextType(non_null) ==
    IF \E i \in DOMAIN non_null : ContainsAt(non_null[i]) THEN "email"
    ELSE IF \E i \in DOMAIN non_null : MatchesPhone(non_null[i]) THEN "phone"
    ELSE IF non_null /= <<>>
            /\ SumSeq([i \in DOMAIN non_null |-> Len(non_null[i])])
                   > LongTextLength * Len(non_null) THEN "long_text"
    ELSE "categorical"

ColumnPattern(col) ==
    LET non_null == DropNa(col)
        base == [column |-> col.name, sample_values |-> Head_k(non_null, SampleValues)]
    IN IF col.dtype = "object" THEN
           IF TextType(non_null) = "email" THEN
               base @@ [type |-> "email",
                        domains |-> Head_k(ValueCounts(NonEmptyOnly(
                            [i \in DOMAIN non_null |-> ExtractDomain(non_null[i])])), TopDomains)]
           ELSE IF TextType(non_null) = "phone" THEN
               base @@ [type |-> "phone"]
           ELSE IF TextType(non_null) = "long_text" THEN
               base @@ [type |-> "long_text",
                        avg_length |-> SumSeq([i \in DOMAIN non_null |-> Len(non_null[i])])
                                           \div Len(non_null)]
           ELSE
               LET value_counts == ValueCounts(non_null)
               IN base @@ [type |-> "categorical",
                           unique_values |-> [i \in DOMAIN Head_k(value_counts, TopValues) |->
                                                 value_counts[i].value],
                           value_distribution |-> Head_k(value_counts, TopValues),
                           cardinality |-> Len(value_counts)]
       ELSE IF col.dtype = "number" THEN
           base @@ [type |-> "numerical",
                    statistics |-> [min |-> SeqMin(non_null), max |-> SeqMax(non_null),
                                    mean |-> Mean(non_null), std |-> Std(non_null)],
                    probable_distribution |-> ProbableDistribution(non_null)]
       ELSE IF col.dtype = "datetime" THEN
           IF non_null /= <<>>
           THEN base @@ [type |-> "datetime",
                         date_range |-> [min |-> TimestampStr(SeqMin(non_null)),
                                         max |-> TimestampStr(SeqMax(non_null))]]
           ELSE base @@ [type |-> "datetime"]
       ELSE base

\* [ok, patterns]: patterns maps each column name to its profile.
extract_advanced_patterns(data) ==
    IF \E i \in DOMAIN data : ColumnRaises(data[i])
    THEN [ok |-> FALSE, patterns |-> <<>>]
    ELSE [ok |-> TRUE,
          patterns |-> [c \in {data[i].name : i \in DOMAIN data} |->
              ColumnPattern(data[CHOOSE i \in DOMAIN data : data[i].name = c])]]

(***************************************************************************)
(* _generate_from_sample_advanced.                                         *)
(***************************************************************************)
\* dict.get(key, default) on a profile.
Get(pattern, key, default) == IF key \in DOMAIN pattern THEN pattern[key] ELSE default

DefaultDomains == <<[value |-> <<"gmail.com">>, count |-> 1]>>

SampleColumn(col, pattern, n, seed, k) ==
    LET u(i) == U(seed, k + i - 1)
        col_type == Get(pattern, "type", "categorical")
    IN CASE col_type = "categorical" ->
              \* np.random.choice(value_counts.index, size=n, p=value_counts.values)
              LET value_counts == ValueCounts(DropNa(col))
                  index == [i \in DOMAIN value_counts |-> value_counts[i].value]
                  p == [i \in DOMAIN value_counts |-> value_counts[i].count]
              IN IF n < 0 \/ value_counts = <<>> THEN Raised
                 ELSE [ok |-> TRUE, skipped |-> FALSE, used |-> n,
                       values |-> [i \in 1..n |-> ChoiceP(index, p, u(i))]]
         [] col_type = "numerical" ->
              LET stats == pattern.statistics
                  distribution == Get(pattern, "probable_distribution", "normal")
              IN IF n < 0 THEN Raised
                 ELSE [ok |-> TRUE, skipped |-> FALSE, used |-> n,
                       values |-> [i \in 1..n |->
                           IF distribution = "normal"
                           THEN Clip(Normal(stats.mean, stats.std, u(i)), stats.min, stats.max)
                           ELSE IF distribution = "exponential"
                           THEN Clip(Exponential(stats.mean, u(i)), stats.min, stats.max)
                           ELSE Uniform(stats.min, stats.max, u(i))]]
         [] col_type = "email" ->
              LET domains == Get(pattern, "domains", DefaultDomains)
                  domain_list == [i \in DOMAIN domains |-> domains[i].value]
                  domain_weights == [i \in DOMAIN domains |-> domains[i].count]
              IN IF n < 0 \/ domain_list = <<>> THEN Raised
                 ELSE [ok |-> TRUE, skipped |-> FALSE, used |-> n,
                       values |-> [i \in 1..n |->
                           <<"user">> \o Format05d(i - 1) \o <<"@">>
                               \o ChoiceP(domain_list, domain_weights, u(i))]]
         [] col_type = "phone" ->
              [ok |-> TRUE, skipped |-> FALSE, used |-> Max2(n, 0),
               values |-> [i \in 1..n |-> PhoneValue(u(i))]]
         [] col_type = "datetime" ->
              IF "date_range" \in DOMAIN pattern
              THEN LET start_date == ToDatetime(pattern.date_range.min)
                       end_date == ToDatetime(pattern.date_range.max)
                       time_diff == Days(end_date - start_date)
                   IN IF n < 0 \/ time_diff <= 0 THEN Raised
                      ELSE [ok |-> TRUE, skipped |-> FALSE, used |-> n,
                            values |-> [i \in 1..n |->
                                start_date + HoursPerDay * RandInt(0, time_diff, u(i))]]
              ELSE [ok |-> TRUE, skipped |-> TRUE, used |-> 0, values |-> <<>>]
         [] OTHER ->
              LET unique_values == Unique(DropNa(col))
              IN IF unique_values /= <<>>
                 THEN IF n < 0 THEN Raised
                      ELSE [ok |-> TRUE, skipped |-> FALSE, used |-> n,
                            values |-> [i \in 1..n |-> Choice(unique_values, u(i))]]
                 ELSE [ok |-> TRUE, skipped |-> FALSE, used |-> 0,
                       values |-> [i \in 1..n |-> <<col.name, "_">> \o Digits(i - 1)]]

\* The for-loop over self.sample_data.columns: [ok, table, k].
RECURSIVE SampleColumns(_, _, _, _, _)
SampleColumns(data, pats, n, seed, acc) ==
    IF data = <<>> \/ ~acc.ok THEN acc
    ELSE LET column == Head(data)
             col == SampleColumn(column, Get(pats, column.name, <<>>), n, seed, acc.k)
         IN SampleColumns(Tail(data), pats, n, seed,
                [ok |-> col.ok,
                 table |-> IF col.ok /\ ~col.skipped
                           THEN DictSet(acc.table, column.name, col.values)
                           ELSE acc.table,
                 k |-> acc.k + col.used])

\* Mutant: the sample-mode generator appends the product columns too.
generate_from_sample_with_product(data, pats, n, seed) ==
    LET cols == SampleColumns(data, pats, n, seed, [ok |-> TRUE, table |-> <<>>, k |-> 0])
    IN IF ~cols.ok THEN [ok |-> FALSE, table |-> <<>>]
       ELSE IF primary_product = <<>> THEN [ok |-> TRUE, table |-> cols.table]
       ELSE IF n < 0 THEN [ok |-> FALSE, table |-> <<>>]
       ELSE [ok |-> TRUE,
             table |-> ProductColumns(cols.table, primary_product[1], n, seed, cols.k)]

\* [ok, table]: ok is FALSE when an exception left the method.
generate_from_sample_advanced(data, pats, n, seed) ==
    LET cols == SampleColumns(data, pats, n, seed, [ok |-> TRUE, table |-> <<>>, k |-> 0])
    IN IF cols.ok THEN [ok |-> TRUE, table |-> cols.table]
       ELSE [ok |-> FALSE, table |-> <<>>]

(***************************************************************************)
(* Inputs: the sample tables a caller may pass.                            *)
(***************************************************************************)
Text1(c) == <<c>>

Column(name, dtype, cells, nulls) ==
    [name |-> name, dtype |-> dtype, strings |-> dtype = "object", values |-> cells, nulls |-> nulls,
     holds |-> IF dtype = "object" THEN "str" ELSE dtype]

ColCity == Column("city", "object", <<Text1("a"), Text1("b"), Text1("a"), <<>>>>, {4})

\* Eleven distinct values: ten of them twice, the eleventh once.
Letters == <<"a", "b", "c", "d", "e", "f", "g", "h", "i", "j", "k">>

ColEleven == Column("tag", "object",
                 [i \in 1..21 |-> Text1(Letters[((i - 1) \div 2) + 1])], {})

ColAllNull == Column("note", "object", <<<<>>, <<>>>>, {1, 2})

ColEmail == Column("email", "object",
                <<<<"u", "@", "x">>, <<"v", "@", "y">>, <<"w", "@", "x">>>>, {})

ColEmailTwoAt == Column("contact", "object", <<<<"a", "@", "b", "@", "c">>>>, {})

ColEmailNoDomain == Column("handle", "object", <<<<"a", "@">>>>, {})

ColPhone == Column("phone", "object", <<<<"+", "3", "4", " ", "6">>, <<>>, <<"6", "1">>>>, {2})

ColLong == Column("bio", "object", <<[i \in 1..51 |-> "x"]>>, {})

ColAge == Column("age", "number", <<1, 3, 5>>, {})

ColSpend == Column("spend", "number", <<0, 0, 0, 4>>, {})

ColScore == Column("score", "number", <<0, 4, 4>>, {})

ColWhen == Column("when", "datetime", <<0, 72, 30>>, {})

ColSameDay == Column("seen", "datetime", <<1, 5>>, {})

ColNaT == Column("gone", "datetime", <<0>>, {1})

\* Columns as long as ColCity, for the tables of two columns.
ColAge4 == Column("age", "number", <<1, 3, 5, 3>>, {})

ColNaT4 == Column("gone", "datetime", <<0, 0, 0, 0>>, {1, 2, 3, 4})

\* Skewness 2 with a negative minimum.
ColLoss == Column("loss", "number", <<0 - 1, 0 - 1, 0 - 1, 3>>, {})

\* Skewness about 0.75 with minimum 0.
ColMid == Column("mid", "number", <<0, 1, 2, 4>>, {})

\* Two values: skew() is NaN.
ColPair == Column("pair", "number", <<2, 9>>, {})

\* One value three times: skew() is 0.
ColConst == Column("fixed", "number", <<2, 2, 2>>, {})

ColFlag == Column("flag", "bool", <<TRUE, FALSE, TRUE>>, {})

\* A value with '@' and a value of digits only.
ColEmailPhone == Column("mix", "object", <<<<"a", "@", "b">>, <<"6", "1">>>>, {})

\* A value of digits only and a value of 101 letters: mean length 51.5.
ColPhoneLong == Column("line", "object", <<<<"6", "1">>, [i \in 1..101 |-> "x"]>>, {})

\* Digits around a '+' that is not the first character.
ColPlusInside == Column("ext", "object", <<<<"6", "+", "1">>, <<"6", "+", "1">>>>, {})

\* A column of strings with null cells between them, and the same without them.
ColGaps == Column("city", "object", <<<<>>, Text1("a"), <<>>, Text1("b"), Text1("a")>>, {1, 3})

ColNoGaps == Column("city", "object", <<Text1("a"), Text1("b"), Text1("a")>>, {})

\* An object column that holds numbers, not strings, under the name of ColAge.
ColCodes == [Column("age", "object", <<7, 8, 7>>, {}) EXCEPT !.strings = FALSE, !.holds = "number"]

\* Booleans with a missing cell, the second (what a null cell holds is never
\* read): pandas stores them as an object column.
ColFlagNull ==
    [Column("flag", "object", <<TRUE, FALSE, FALSE>>, {2}) EXCEPT !.strings = FALSE, !.holds = "bool"]

\* The column a table holds when the null cells of col are absent from the
\* data: booleans without a missing cell are stored as a bool column.
WithoutNulls(col) ==
    [col EXCEPT !.values = DropNa(col), !.nulls = {},
                !.dtype = IF col.nulls /= {} /\ col.dtype = "object" /\ col.holds = "bool"
                          THEN "bool" ELSE col.dtype]

Frame(df) == [kind |-> "frame", ext |-> "", readable |-> TRUE, frame |-> df]

Path(ext, readable, df) == [kind |-> "path", ext |-> ext, readable |-> readable, frame |-> df]

NotATable == [kind |-> "other", ext |-> "", readable |-> FALSE, frame |-> <<>>]

BadSources == {Path("txt", TRUE, <<ColCity>>), Path("csv", FALSE, <<>>), NotATable}

CoreSources == {Frame(<<ColCity>>), Frame(<<ColEleven>>), Frame(<<ColCodes>>), Frame(<<ColAge>>),
                Path("txt", TRUE, <<ColCity>>)}

AllSources ==
    {Frame(<<c>>) : c \in {ColCity, ColEleven, ColAllNull, ColEmail, ColEmailTwoAt,
                           ColEmailNoDomain, ColPhone, ColLong, ColAge, ColSpend, ColScore,
                           ColLoss, ColMid, ColPair, ColConst, ColWhen, ColSameDay, ColNaT, ColFlag, ColCodes}}
    \cup {Frame(<<ColCity, ColAge4>>), Frame(<<ColNaT4, ColCity>>), Frame(<<>>),
          Path("csv", TRUE, <<ColEmail, ColPhone>>), Path("json", TRUE, <<ColSpend>>)}
    \cup BadSources

(***************************************************************************)
(* Inputs: the answers a caller may type.                                  *)
(***************************************************************************)
Num(v) == [kind |-> "num", v |-> v]

NoAnswer == [kind |-> "empty", v |-> 0]

NotANumber == [kind |-> "bad", v |-> 0]

Entry(name, type_choice, more) ==
    [name |-> name, type_choice |-> type_choice, values_input |-> <<>>,
     min_in |-> NoAnswer, max_in |-> NoAnswer, dist_choice |-> "", more |-> more]

Categorical(name, values_input, more) ==
    [Entry(name, "1", more) EXCEPT !.values_input = values_input]

Numerical(name, min_in, max_in, dist_choice, more) ==
    [Entry(name, "2", more) EXCEPT !.min_in = min_in, !.max_in = max_in,
                                   !.dist_choice = dist_choice]

PlanValues == <<"a", ",", " ", "b">>

CoreScripts ==
    {<<Categorical("plan", PlanValues, FALSE)>>,
     <<Entry("id", "3", TRUE), Numerical("age", NotANumber, Num(12), "1", FALSE)>>,
     <<Entry("joined", "6", FALSE)>>}

AllScripts ==
    CoreScripts \cup
    {<<Categorical("plan", <<>>, FALSE)>>,
     <<Numerical("age", Num(0), Num(12), "2", FALSE)>>,
     <<Numerical("age", Num(0), Num(12), "1", FALSE)>>,
     <<Numerical("age", Num(12), Num(0), "1", FALSE)>>,
     <<Numerical("age", Num(12), Num(0), "2", FALSE)>>,
     <<Numerical("age", NoAnswer, NoAnswer, "", FALSE)>>,
     <<Entry("mail", "4", FALSE)>>,
     <<Entry("phone", "5", FALSE)>>,
     <<Entry("id", "9", FALSE)>>,
     <<Entry("", "", FALSE)>>,
     <<Categorical("plan", PlanValues, TRUE), Numerical("age", Num(0), Num(12), "2", TRUE),
       Entry("", "", FALSE)>>,
     <<Entry("x", "3", TRUE), Entry("x", "5", FALSE)>>}

ProductAnswers(min_in, max_in, prob_in) ==
    [name |-> <<"Laptop">>, category |-> <<"Tech">>, min_in |-> min_in, max_in |-> max_in,
     features_input |-> <<"f">>, prob_in |-> prob_in]

CoreProducts == {ProductAnswers(Num(10), Num(20), Num(5))}

AllProducts ==
    CoreProducts \cup
    {ProductAnswers(Num(10), Num(20), Num(0)),
     ProductAnswers(Num(20), Num(10), Num(10)),
     ProductAnswers(NoAnswer, NoAnswer, NoAnswer),
     ProductAnswers(Num(10), NotANumber, Num(5))}

(***************************************************************************)
(* The session.                                                            *)
(***************************************************************************)
ErrNotReady == "Debe analizar datos o definir variables primero"

ErrFormat == "Formato de archivo no soportado"

ErrType == "Tipo de datos no soportado"

Outcome(op, err, raised, n, seed, table) ==
    [op |-> op, err |-> err, raised |-> raised, n |-> n, seed |-> seed, table |-> table]

\* The sessions of one process, and one of them as constructed.
Sessions == {1, 2}

NewAgent == [customer_variables |-> <<>>, generation_mode |-> "None", calls |-> 0,
             call |-> <<>>, returned |-> <<>>]

\* __init__ (agent.py:30-37).
(***************************************************************************)
(* The chat service (synthetic_data_generator_basic).  None is <<>> and a   *)
(* value v of an Optional field is <<v>>.  A conversation history is a      *)
(* sequence of [role, content].                                            *)
(***************************************************************************)
SessionIds == {"s1", "s2"}

UserIds == {"u1"}

TaskIds == 1..MaxTasks

\* SyntheticDataContext(user_id=..., session_id=...): the dataclass defaults.
SyntheticDataContext(user_id, session_id) ==
    [user_id |-> user_id, session_id |-> session_id,
     conversation_messages |-> <<>>,
     analyzed_file_path |-> <<>>, analyzed_file_info |-> <<>>,
     generated_file_path |-> <<>>, generated_file_id |-> <<>>, generated_rows |-> <<>>,
     last_model_used |-> <<>>, processing_history |-> <<>>, current_agent |-> <<>>]

\* A handler that has not been called yet.
NoTask ==
    [kind |-> "none", pc |-> "idle", session_id |-> "", message |-> "", agent |-> "",
     full_input |-> <<>>, events |-> <<>>, read |-> 0, saved |-> FALSE,
           new_agent |-> ""]

Init ==
    /\ SESSION_CONTEXTS = [sid \in SessionIds |-> <<>>]
    /\ tasks = [t \in TaskIds |-> NoTask]
    /\ context = SyntheticDataContext("u1", "s1")
    /\ tool_return = <<>>
    /\ np_random = 0
    /\ agents = [s \in Sessions |-> NewAgent]
    /\ sample_data = <<>>
    /\ metadata = <<>>
    /\ patterns = <<>>
    /\ customer_variables = <<>>
    /\ primary_product = <<>>
    /\ generated_data = <<>>
    /\ generation_mode = "None"
    /\ outcome = Outcome("init", "none", FALSE, 0, 0, <<>>)

\* The metadata dict (agent.py:74-81): the columns and the shape.
Metadata(df) ==
    [columns |-> [i \in DOMAIN df |-> df[i].name],
     shape |-> <<IF df = <<>> THEN 0 ELSE Len(df[1].values), Len(df)>>]

\* Mutant: a readable path is read whatever its extension.
LoadAnyExtension(source) ==
    IF source.kind = "path"
    THEN IF source.readable THEN "loaded" ELSE "IOError"
    ELSE IF source.kind = "frame" THEN "loaded"
    ELSE ErrType

\* What loading data_source does: "loaded", or the exception it raises.
Load(source) ==
    IF source.kind = "path"
    THEN IF source.ext \in {"csv", "json"}
         THEN IF source.readable THEN "loaded" ELSE "IOError"
         ELSE ErrFormat
    ELSE IF source.kind = "frame" THEN "loaded"
    ELSE ErrType

\* What analyze_sample_data does to the sample, its metadata and profiles and the
\* mode: nothing unless the source loads; the profiles and the mode only when
\* the pattern extraction does not raise.
AnalyzeSample(source) ==
    LET loaded == Load(source)
        extracted == extract_advanced_patterns(source.frame)
    IN IF loaded /= "loaded"
       THEN /\ outcome' = Outcome("analyze", loaded, FALSE, 0, 0, <<>>)
            /\ UNCHANGED <<sample_data, metadata, patterns, generation_mode>>
       ELSE /\ sample_data' = <<source.frame>>
            /\ metadata' = <<Metadata(source.frame)>>
            /\ IF extracted.ok
               THEN /\ patterns' = extracted.patterns
                    /\ generation_mode' = "FROM_SAMPLE"
                    /\ outcome' = Outcome("analyze", "none", FALSE, 0, 0, <<>>)
               ELSE /\ outcome' = Outcome("analyze", "AttributeError", FALSE, 0, 0, <<>>)
                    /\ UNCHANGED <<patterns, generation_mode>>

\* Mutant: analyzing a sample discards the declarations.
AnalyzeDiscardsDeclarations(source) ==
    /\ AnalyzeSample(source)
    /\ customer_variables' = <<>>
    /\ UNCHANGED <<primary_product, generated_data, np_random, agents, basicVars>>

Analyze(source) ==
    /\ AnalyzeSample(source)
    /\ UNCHANGED <<customer_variables, primary_product, generated_data, np_random, agents,
                   basicVars>>

analyze_sample_data(sources) == \E source \in sources : Analyze(source)

define_variables_interactive(scripts) ==
    \E script \in scripts :
        LET loop == DefineLoop(script, <<>>)
        IN /\ customer_variables' = loop.variables
           /\ IF loop.raised
              THEN /\ outcome' = Outcome("define_variables", "ValueError", TRUE, 0, 0, <<>>)
                   /\ UNCHANGED generation_mode
              ELSE /\ outcome' = Outcome("define_variables", "none", FALSE, 0, 0, <<>>)
                   /\ generation_mode' = "FROM_DEFINITION"
           /\ UNCHANGED <<sample_data, metadata, patterns, primary_product, generated_data,
                          np_random, agents, basicVars>>

define_product_interactive(answers) ==
    \E a \in answers :
        /\ IF ProductRaises(a)
           THEN /\ outcome' = Outcome("define_product", "ValueError", TRUE, 0, 0, <<>>)
                /\ UNCHANGED primary_product
           ELSE /\ outcome' = Outcome("define_product", "none", FALSE, 0, 0, <<>>)
                /\ primary_product' = <<ProductFrom(a)>>
        /\ UNCHANGED <<sample_data, metadata, patterns, customer_variables,
                       generated_data, generation_mode, np_random, agents, basicVars>>

\* Mutant: without the final else, a session with no mode generates from the
\* (empty) declarations.
GenerateWithoutElse(n, seed, now) ==
    IF generation_mode = "FROM_SAMPLE"
    THEN LET g == generate_from_sample_advanced(sample_data[1], patterns, n, seed)
         IN [ok |-> g.ok, err |-> IF g.ok THEN "none" ELSE "ValueError", table |-> g.table]
    ELSE LET g == generate_from_definition_advanced(customer_variables, primary_product,
                                                    n, seed, now)
         IN [ok |-> g.ok, err |-> IF g.ok THEN "none" ELSE "ValueError", table |-> g.table]

\* The try-block of generate_data: [ok, err, table].
Generate(n, seed, now) ==
    IF generation_mode = "FROM_SAMPLE"
    THEN LET g == generate_from_sample_advanced(sample_data[1], patterns, n, seed)
         IN [ok |-> g.ok, err |-> IF g.ok THEN "none" ELSE "ValueError", table |-> g.table]
    ELSE IF generation_mode = "FROM_DEFINITION"
    THEN LET g == generate_from_definition_advanced(customer_variables, primary_product,
                                                    n, seed, now)
         IN [ok |-> g.ok, err |-> IF g.ok THEN "none" ELSE "ValueError", table |-> g.table]
    ELSE [ok |-> FALSE, err |-> ErrNotReady, table |-> <<>>]

\* What datetime.now() may read during a call; only a 'date' variable reads it.
ClockReadings ==
    IF generation_mode = "FROM_DEFINITION"
       /\ \E i \in DOMAIN customer_variables : customer_variables[i].data_type = "date"
    THEN Clock ELSE {0}

\* Mutant: the returned table is merged into the table already stored.
StoreMerged(stored, table) == IF stored = <<>> THEN <<table>> ELSE <<stored[1] \o table>>

\* self.generated_data = <the table the generator returned> (agent.py:325, 327).
Store(stored, table) == <<table>>

\* Mutant: a failing call leaves the session without a mode.
generate_data_resets_mode ==
    \E n \in RowCounts, seed \in Seeds, now \in ClockReadings :
        LET g == Generate(n, seed, now)
        IN /\ IF g.ok
              THEN generated_data' = Store(generated_data, g.table) /\ UNCHANGED generation_mode
              ELSE generation_mode' = "None" /\ UNCHANGED generated_data
           /\ outcome' = Outcome("generate", g.err, FALSE, n, seed, g.table)
           /\ UNCHANGED <<sample_data, metadata, patterns, customer_variables,
                          primary_product, np_random, agents, basicVars>>

\* generate_data: now is what datetime.now() reads during the call.
generate_data ==
    \E n \in RowCounts, seed \in Seeds, now \in ClockReadings :
        LET g == Generate(n, seed, now)
        IN /\ IF g.ok
              THEN generated_data' = Store(generated_data, g.table)
              ELSE UNCHANGED generated_data
           /\ outcome' = Outcome("generate", g.err, FALSE, n, seed, g.table)
           /\ UNCHANGED <<sample_data, metadata, patterns, customer_variables,
                          primary_product, generation_mode, np_random, agents, basicVars>>

Next ==
    \/ analyze_sample_data(CoreSources)
    \/ define_variables_interactive(CoreScripts)
    \/ define_product_interactive(CoreProducts)
    \/ generate_data

Spec == Init /\ [][Next]_vars

\* A session used in sample mode only, over every sample of the catalogue.
NextSample ==
    \/ analyze_sample_data(AllSources)
    \/ generate_data

SpecSample == Init /\ [][NextSample]_vars

\* A session used in sample mode only, over the samples that exercise the
\* classification of the columns.
ProfileSources ==
    {Frame(<<c>>) : c \in {ColCity, ColEmail, ColPhone, ColLong, ColPlusInside, ColGaps, ColNoGaps, ColAllNull, ColAge, ColWhen,
                           ColNaT, ColFlag, ColFlagNull, ColCodes}}
    \cup {Frame(<<ColCity, ColAge4>>), Frame(<<ColEmailPhone, ColPhoneLong>>), Frame(<<>>)}
    \cup BadSources

NextProfile ==
    \/ analyze_sample_data(ProfileSources)
    \/ generate_data

SpecProfile == Init /\ [][NextProfile]_vars

\* A session that generates phone numbers in both modes.
PhoneSources == {Frame(<<ColPhone>>), Frame(<<ColEmailPhone, ColPhoneLong>>)}

PhoneScripts == {<<Entry("phone", "5", FALSE)>>,
                 <<Entry("id", "3", TRUE), Entry("mobile", "5", FALSE)>>}

NextPhone ==
    \/ analyze_sample_data(PhoneSources)
    \/ define_variables_interactive(PhoneScripts)
    \/ generate_data

SpecPhone == Init /\ [][NextPhone]_vars

\* A session used in definition mode only, over every script of the catalogue;
\* the caller defines the variables once, before anything else.
NextDefinition ==
    \/ generation_mode = "None" /\ define_variables_interactive(AllScripts)
    \/ generation_mode /= "None" /\ define_product_interactive(AllProducts)
    \/ generation_mode /= "None" /\ generate_data

SpecDefinition == Init /\ [][NextDefinition]_vars

(***************************************************************************)
(* Several sessions in one process.  generate_data seeds numpy's global    *)
(* generator (agent.py:321) and then draws from it, one numpy call after   *)
(* another; between two numpy calls another session's call may run.  The   *)
(* sessions here declare phone variables, whose column is one              *)
(* np.random.randint call per row (agent.py:449-453).                      *)
(***************************************************************************)
SharedScripts == {<<Entry("phone", "5", FALSE)>>}

\* define_variables_interactive of session s.
AgentDefine(s) ==
    \E script \in SharedScripts :
        LET loop == DefineLoop(script, <<>>)
        IN /\ agents[s].generation_mode = "None"
           /\ agents[s].call = <<>>
           /\ ~loop.raised
           /\ agents' = [agents EXCEPT ![s].customer_variables = loop.variables,
                                       ![s].generation_mode = "FROM_DEFINITION"]
           /\ UNCHANGED <<sample_data, metadata, patterns, customer_variables,
                          primary_product, generated_data, generation_mode, outcome,
                          np_random, basicVars>>

\* generate_data of session s, up to np.random.seed(seed) (agent.py:321).
AgentSeed(s) ==
    \E n \in 1..MaxRows, seed \in Seeds :
        /\ agents[s].generation_mode = "FROM_DEFINITION"
        /\ agents[s].call = <<>>
        /\ agents[s].calls < MaxCalls
        /\ np_random' = RngSeed(seed)
        /\ agents' = [agents EXCEPT ![s].calls = @ + 1,
                                    ![s].call = <<[n |-> n, seed |-> seed, drawn |-> <<>>]>>]
        /\ UNCHANGED <<sample_data, metadata, patterns, customer_variables,
                       primary_product, generated_data, generation_mode, outcome, basicVars>>

\* The variates the call of session s needs: one per row and phone variable.
DrawsNeeded(s) == agents[s].call[1].n * Len(agents[s].customer_variables)

\* One np.random.randint call of session s (agent.py:451): it reads the global
\* generator and advances it.
AgentDraw(s) ==
    /\ agents[s].call /= <<>>
    /\ Len(agents[s].call[1].drawn) < DrawsNeeded(s)
    /\ agents' = [agents EXCEPT ![s].call[1].drawn = Append(@, np_random)]
    /\ np_random' = RngStep(np_random)
    /\ UNCHANGED <<sample_data, metadata, patterns, customer_variables,
                   primary_product, generated_data, generation_mode, outcome, basicVars>>

\* The table built from the variates drawn: one column per declaration.
AgentTable(variables, n, drawn) ==
    [j \in DOMAIN variables |->
        [name |-> variables[j].name,
         values |-> [i \in 1..n |-> PhoneValue(drawn[(j - 1) * n + i])]]]

\* generate_data of session s returns (agent.py:327, 332).
AgentReturn(s) ==
    /\ agents[s].call /= <<>>
    /\ Len(agents[s].call[1].drawn) = DrawsNeeded(s)
    /\ agents' = [agents EXCEPT
           ![s].call = <<>>,
           ![s].returned = <<[n |-> agents[s].call[1].n, seed |-> agents[s].call[1].seed,
                              table |-> AgentTable(agents[s].customer_variables,
                                                   agents[s].call[1].n,
                                                   agents[s].call[1].drawn)]>>]
    /\ UNCHANGED <<sample_data, metadata, patterns, customer_variables,
                   primary_product, generated_data, generation_mode, outcome, np_random, basicVars>>

NextShared ==
    \E s \in Sessions :
        \/ AgentDefine(s)
        \/ AgentSeed(s)
        \/ AgentDraw(s)
        \/ AgentReturn(s)

SpecShared == Init /\ [][NextShared]_vars

(***************************************************************************)
(* handle_message (conversation_handler.py:26-95).  The coroutine runs     *)
(* without interruption up to its await on Runner.run, where the calls of  *)
(* other requests may run, and again from the await to its return.         *)
(***************************************************************************)
Messages == {"hola", "datos"}

\* The names of the agents of AGENTS (my_agents.py:249).
AgentNames == {"Orchestrator", "Sample"}

UserMessage(message) == [role |-> "user", content |-> message]

\* result.to_input_list(): the input of the run followed by what the run added.
ToInputList(full_input) == Append(full_input, [role |-> "assistant", content |-> "ok"])

\* if session_id not in SESSION_CONTEXTS: ... (conversation_handler.py:34-38).
GetOrCreate(contexts, user_id, session_id) ==
    IF contexts[session_id] = <<>>
    THEN [contexts EXCEPT ![session_id] = <<SyntheticDataContext(user_id, session_id)>>]
    ELSE contexts

\* AGENTS.get(getattr(sdk_context, 'current_agent', 'Orchestrator'), orchestrator_agent).name
AgentFor(sdk_context) ==
    IF sdk_context.current_agent /= <<>> /\ sdk_context.current_agent[1] \in AgentNames
    THEN sdk_context.current_agent[1]
    ELSE "Orchestrator"

\* The history followed by the new user message (conversation_handler.py:49-56).
FullInput(sdk_context, message) ==
    IF sdk_context.conversation_messages /= <<>>
    THEN sdk_context.conversation_messages \o <<UserMessage(message)>>
    ELSE <<UserMessage(message)>>

\* handle_message up to the await (conversation_handler.py:32-66).
HandleMessageCall(t) ==
    \E user_id \in UserIds, session_id \in SessionIds, message \in Messages :
        LET contexts == GetOrCreate(SESSION_CONTEXTS, user_id, session_id)
            sdk_context == contexts[session_id][1]
        IN /\ tasks[t].pc = "idle"
           /\ SESSION_CONTEXTS' = contexts
           /\ tasks' = [tasks EXCEPT ![t] =
                  [NoTask EXCEPT !.kind = "message", !.pc = "awaiting",
                                 !.session_id = session_id, !.message = message,
                                 !.agent = AgentFor(sdk_context),
                                 !.full_input = FullInput(sdk_context, message)]]
           /\ UNCHANGED <<agentVars, context, tool_return>>

\* A variant that leaves the stored history as it was.
SaveHistoryNever(sdk_context, task) == sdk_context

\* sdk_context.conversation_messages = result.to_input_list()
\* (conversation_handler.py:69, 216).
SaveHistory(sdk_context, task) ==
    [sdk_context EXCEPT !.conversation_messages = ToInputList(task.full_input)]

\* Runner.run returns: handle_message from the await to its return
\* (conversation_handler.py:66-83); last_agent is the agent that answered.
HandleMessageReturn(t) ==
    \E last_agent \in AgentNames :
        /\ tasks[t].kind = "message"
        /\ tasks[t].pc = "awaiting"
        /\ SESSION_CONTEXTS' = [SESSION_CONTEXTS EXCEPT ![tasks[t].session_id] =
               <<[SaveHistory(@[1], tasks[t]) EXCEPT !.current_agent = <<last_agent>>]>>]
        /\ tasks' = [tasks EXCEPT ![t].pc = "done", ![t].saved = TRUE]
        /\ UNCHANGED <<agentVars, context, tool_return>>

\* Runner.run raises: the except clause returns the error response
\* (conversation_handler.py:85-95).
HandleMessageRaises(t) ==
    /\ tasks[t].kind = "message"
    /\ tasks[t].pc = "awaiting"
    /\ tasks' = [tasks EXCEPT ![t].pc = "failed"]
    /\ UNCHANGED <<agentVars, SESSION_CONTEXTS, context, tool_return>>

NextConversation ==
    \E t \in TaskIds :
        \/ HandleMessageCall(t)
        \/ HandleMessageReturn(t)
        \/ HandleMessageRaises(t)

SpecConversation == Init /\ [][NextConversation]_vars

(***************************************************************************)
(* handle_message_stream (conversation_handler.py:97-237).  The generator  *)
(* is suspended at each yield and at each await on the SDK's stream, where *)
(* other requests may run.  A task keeps the types of the events yielded   *)
(* so far in events and the number of SDK events consumed in read.         *)
(***************************************************************************)
StreamEvent(task, type) == [task EXCEPT !.events = Append(@, type)]

\* event.data of a raw_response_event: <<>> when it is not a
\* ResponseTextDeltaEvent, <<delta>> when it is one.
RawData == {<<>>, <<"">>, <<"x">>}

\* event.item.type of a run_item_stream_event.
ItemTypes == {"tool_call_item", "tool_call_output_item", "message_output_item"}

\* What a raw_response_event yields (conversation_handler.py:150-155).
TextDeltaEvents(data) ==
    IF data /= <<>> /\ data[1] /= "" THEN <<"content_block_delta">> ELSE <<>>

\* What a run_item_stream_event yields (conversation_handler.py:175-213).
RunItemEvents(item_type) ==
    IF item_type = "tool_call_item" THEN <<"tool_call">>
    ELSE IF item_type = "tool_call_output_item" THEN <<"tool_result">>
    ELSE <<>>

\* From the call to the first yield (conversation_handler.py:103-144).
StreamStart(t) ==
    \E user_id \in UserIds, session_id \in SessionIds, message \in Messages :
        LET contexts == GetOrCreate(SESSION_CONTEXTS, user_id, session_id)
            sdk_context == contexts[session_id][1]
        IN /\ tasks[t].pc = "idle"
           /\ SESSION_CONTEXTS' = contexts
           /\ tasks' = [tasks EXCEPT ![t] =
                  StreamEvent([NoTask EXCEPT !.kind = "stream", !.pc = "streaming",
                                             !.session_id = session_id,
                                             !.message = message,
                                             !.agent = AgentFor(sdk_context),
                                             !.full_input = FullInput(sdk_context, message)],
                              "message_start")]
           /\ UNCHANGED <<agentVars, context, tool_return>>

\* Runner.run_streamed raises: the except clause yields the error event and
\* the generator ends (conversation_handler.py:134, 232-237).
StreamStartRaises(t) ==
    \E user_id \in UserIds, session_id \in SessionIds, message \in Messages :
        /\ tasks[t].pc = "idle"
        /\ SESSION_CONTEXTS' = GetOrCreate(SESSION_CONTEXTS, user_id, session_id)
        /\ tasks' = [tasks EXCEPT ![t] =
               StreamEvent([NoTask EXCEPT !.kind = "stream", !.pc = "closed",
                                          !.session_id = session_id,
                                          !.message = message],
                           "error_event")]
        /\ UNCHANGED <<agentVars, context, tool_return>>

\* The stream delivers a raw_response_event (conversation_handler.py:150-155).
StreamRawResponse(t) ==
    \E data \in RawData :
        /\ tasks[t].kind = "stream"
        /\ tasks[t].pc = "streaming"
        /\ tasks[t].read < MaxEvents
        /\ tasks' = [tasks EXCEPT ![t] =
               [@ EXCEPT !.read = @ + 1, !.events = @ \o TextDeltaEvents(data)]]
        /\ UNCHANGED <<agentVars, SESSION_CONTEXTS, context, tool_return>>

\* The stream delivers an agent_updated_stream_event: the generator yields
\* agent_change and is suspended there (conversation_handler.py:158-168).
StreamAgentUpdated(t) ==
    \E new_agent_name \in AgentNames :
        /\ tasks[t].kind = "stream"
        /\ tasks[t].pc = "streaming"
        /\ tasks[t].read < MaxEvents
        /\ tasks' = [tasks EXCEPT ![t] =
               StreamEvent([@ EXCEPT !.read = @ + 1, !.pc = "handoff",
                                     !.new_agent = new_agent_name],
                           "agent_change")]
        /\ UNCHANGED <<agentVars, SESSION_CONTEXTS, context, tool_return>>

\* The generator is resumed after agent_change
\* (conversation_handler.py:171-172).
StreamHandoff(t) ==
    /\ tasks[t].kind = "stream"
    /\ tasks[t].pc = "handoff"
    /\ SESSION_CONTEXTS' = [SESSION_CONTEXTS EXCEPT ![tasks[t].session_id] =
           <<[@[1] EXCEPT !.current_agent = <<tasks[t].new_agent>>]>>]
    /\ tasks' = [tasks EXCEPT ![t].pc = "streaming", ![t].agent = tasks[t].new_agent]
    /\ UNCHANGED <<agentVars, context, tool_return>>

\* The stream delivers a run_item_stream_event (conversation_handler.py:175-213).
StreamRunItem(t) ==
    \E item_type \in ItemTypes :
        /\ tasks[t].kind = "stream"
        /\ tasks[t].pc = "streaming"
        /\ tasks[t].read < MaxEvents
        /\ tasks' = [tasks EXCEPT ![t] =
               [@ EXCEPT !.read = @ + 1, !.events = @ \o RunItemEvents(item_type)]]
        /\ UNCHANGED <<agentVars, SESSION_CONTEXTS, context, tool_return>>

\* The stream raises: the except clause yields the error event and the
\* generator ends (conversation_handler.py:147, 232-237).
StreamRaises(t) ==
    /\ tasks[t].kind = "stream"
    /\ tasks[t].pc = "streaming"
    /\ tasks' = [tasks EXCEPT ![t] = StreamEvent([@ EXCEPT !.pc = "closed"], "error_event")]
    /\ UNCHANGED <<agentVars, SESSION_CONTEXTS, context, tool_return>>

\* The stream ends: the history is stored, message_done is yielded and the
\* generator ends (conversation_handler.py:216-230).
StreamEnd(t) ==
    /\ tasks[t].kind = "stream"
    /\ tasks[t].pc = "streaming"
    /\ SESSION_CONTEXTS' = [SESSION_CONTEXTS EXCEPT ![tasks[t].session_id] =
           <<SaveHistory(@[1], tasks[t])>>]
    /\ tasks' = [tasks EXCEPT ![t] =
           StreamEvent([@ EXCEPT !.pc = "closed", !.saved = TRUE], "message_done")]
    /\ UNCHANGED <<agentVars, context, tool_return>>

\* The task whose request streams; the requests of the other tasks are
\* handle_message calls, which run while the generator is suspended.
StreamTaskIds == {t \in TaskIds : t = 1}

NextStream ==
    \/ \E t \in StreamTaskIds :
           \/ StreamStart(t)
           \/ StreamStartRaises(t)
           \/ StreamRawResponse(t)
           \/ StreamAgentUpdated(t)
           \/ StreamHandoff(t)
           \/ StreamRunItem(t)
           \/ StreamRaises(t)
           \/ StreamEnd(t)
    \/ \E t \in TaskIds \ StreamTaskIds :
           \/ HandleMessageCall(t)
           \/ HandleMessageReturn(t)
           \/ HandleMessageRaises(t)

SpecStream == Init /\ [][NextStream]_vars

(***************************************************************************)
(* The SDV tools of the chat service (tools.py:55-275, and the same code   *)
(* in sdk_tools_and_context.py:61-305).  A tool is a synchronous function  *)
(* on the context of its session; context is that context and tool_return  *)
(* is <<the dictionary the last call returned>>, with the call's arguments *)
(* kept beside it.                                                         *)
(***************************************************************************)
\* if num_rows > 100000 (tools.py:166).
MaxGenerationRows == 100000

\* if len(source_df) < 2 (tools.py:154).
MinSourceRows == 2

\* The files of the session: the rows pd.read_csv finds in each, <<>> for a
\* path that cannot be read.
FilePaths == {"a.csv", "one.csv", "missing.csv"}

FileRows(file_path) ==
    IF file_path = "a.csv" THEN <<3>>
    ELSE IF file_path = "one.csv" THEN <<1>>
    ELSE <<>>

RequestedRows == {0, 1, MaxGenerationRows, MaxGenerationRows + 1}

ModelTypes == {"GaussianCopula", "CTGAN", "CopulaGAN", "TVAE", "ctgan"}

\* pd.Timestamp.now().strftime("%Y%m%d_%H%M%S") (tools.py:222).
Timestamps == {"20250101_000000"}

\* What the libraries do in a call: "ok", or the step that raises.
LibraryOutcomes == {"ok", "read_csv", "import", "metadata", "fit", "sample", "to_csv"}

\* context.add_to_history(action, details) (tools.py:43-49).
add_to_history(ctx, action, details) ==
    [ctx EXCEPT !.processing_history =
        Append(@, [action |-> action, details |-> details])]

ToolReturn(tool, call, success, error, file_id) ==
    <<[tool |-> tool, call |-> call, success |-> success, error |-> error,
       file_id |-> file_id]>>

\* analyze_csv_file (tools.py:55-118): the context and dictionary after a call.
analyze_csv_file(ctx, file_path) ==
    LET call == [file_path |-> file_path]
        df == FileRows(file_path)
    IN IF df = <<>>
       THEN [context |-> ctx,
             ret |-> ToolReturn("analyze_csv_file", call, FALSE, "read_csv", "")]
       ELSE [context |->
                 add_to_history([ctx EXCEPT !.analyzed_file_path = <<file_path>>,
                                            !.analyzed_file_info =
                                                <<[file_path |-> file_path, rows |-> df[1]]>>],
                                "csv_analyzed",
                                [file_path |-> file_path, rows |-> df[1]]),
             ret |-> ToolReturn("analyze_csv_file", call, TRUE, "", "")]

\* A variant that accepts every model name.
SupportedModelAny(model_type) == TRUE

\* The if/elif chain on model_type (tools.py:176-188).
SupportedModel(model_type) ==
    model_type \in {"GaussianCopula", "CTGAN", "CopulaGAN", "TVAE"}

\* The first check of generate_synthetic_data_with_sdv that fails, in the
\* order of the code (tools.py:141-230), "" when none does; sdv is what the
\* libraries do in this call.
GenerationError(ctx, num_rows, model_type, sdv) ==
    IF ctx.analyzed_file_path = <<>> \/ ctx.analyzed_file_path[1] = "" THEN "not_analyzed"
    ELSE IF sdv = "read_csv" \/ FileRows(ctx.analyzed_file_path[1]) = <<>> THEN "read_csv"
    ELSE IF FileRows(ctx.analyzed_file_path[1])[1] < MinSourceRows THEN "source_rows"
    ELSE IF num_rows <= 0 THEN "num_rows_low"
    ELSE IF num_rows > MaxGenerationRows THEN "num_rows_high"
    ELSE IF sdv = "import" THEN "import"
    ELSE IF ~SupportedModel(model_type) THEN "model_type"
    ELSE IF sdv /= "ok" THEN sdv
    ELSE ""

\* generate_synthetic_data_with_sdv (tools.py:121-275): the context and
\* dictionary after a call.
generate_synthetic_data_with_sdv(ctx, num_rows, model_type, sdv, timestamp) ==
    LET call == [num_rows |-> num_rows, model_type |-> model_type]
        error == GenerationError(ctx, num_rows, model_type, sdv)
        output_filename == <<ctx.analyzed_file_path[1], model_type, num_rows, timestamp>>
    IN IF error /= ""
       THEN [context |-> ctx,
             ret |-> ToolReturn("generate_synthetic_data_with_sdv", call, FALSE, error, "")]
       ELSE [context |->
                 add_to_history([ctx EXCEPT !.generated_file_path = <<output_filename>>,
                                            !.generated_file_id = <<timestamp>>,
                                            !.generated_rows = <<num_rows>>,
                                            !.last_model_used = <<model_type>>],
                                "synthetic_data_generated",
                                [model_type |-> model_type, num_rows |-> num_rows,
                                 output_filename |-> output_filename]),
             ret |-> ToolReturn("generate_synthetic_data_with_sdv", call, TRUE, "",
                                timestamp)]

\* The agent calls analyze_csv_file.
AnalyzeCsvFile ==
    \E file_path \in FilePaths :
        LET after == analyze_csv_file(context, file_path)
        IN /\ Len(after.context.processing_history) <= MaxHistory
           /\ context' = after.context
           /\ tool_return' = after.ret
           /\ UNCHANGED <<agentVars, SESSION_CONTEXTS, tasks>>

\* The agent calls generate_synthetic_data_with_sdv.
GenerateSyntheticDataWithSdv ==
    \E num_rows \in RequestedRows, model_type \in ModelTypes,
       sdv \in LibraryOutcomes, timestamp \in Timestamps :
        LET after == generate_synthetic_data_with_sdv(context, num_rows, model_type,
                                                      sdv, timestamp)
        IN /\ Len(after.context.processing_history) <= MaxHistory
           /\ context' = after.context
           /\ tool_return' = after.ret
           /\ UNCHANGED <<agentVars, SESSION_CONTEXTS, tasks>>

NextTools == AnalyzeCsvFile \/ GenerateSyntheticDataWithSdv

SpecTools == Init /\ [][NextTools]_vars

(***************************************************************************)
(* Properties.                                                             *)
(***************************************************************************)
\* The last call was a generate_data that returned a table without error.
Generated == outcome.op = "generate" /\ outcome.err = "none"

\* The declaration at i is the one whose column the table holds under its name.
Effective(i) ==
    /\ HasColumn(outcome.table, customer_variables[i].name)
    /\ \A j \in (i + 1)..Len(customer_variables) :
           customer_variables[j].name /= customer_variables[i].name

GeneratedFor(i) == ValuesOf(outcome.table, customer_variables[i].name)

\* The profile the generator reads for a column of the stored sample.
PatternOf(col) == Get(patterns, col.name, <<>>)

NonNullCells(col) == {col.values[j] : j \in (DOMAIN col.values) \ col.nulls}

CountAt(text) == Cardinality({i \in DOMAIN text : text[i] = "@"})

AfterFirstAt(text) ==
    LET i == CHOOSE j \in DOMAIN text : text[j] = "@" /\ \A h \in 1..(j - 1) : text[h] /= "@"
    IN SubSeq(text, i + 1, Len(text))

\* C1 (as claimed): two consecutive generate_data calls of one session with the
\* same row_count and the same seed return the same table.
C1_Determinism ==
    [][(outcome.op = "generate" /\ outcome'.op = "generate"
        /\ outcome'.n = outcome.n /\ outcome'.seed = outcome.seed)
       => outcome'.table = outcome.table]_vars

\* C2 (as claimed): generate_data(row_count) with row_count > 0 on a session that
\* has a mode returns exactly row_count rows.
C2_RowCount ==
    (outcome.op = "generate" /\ outcome.n > 0 /\ generation_mode /= "None")
        => NumRows(outcome.table) = outcome.n

\* C3 (as claimed): every generated value of a numerical column lies within
\* [min, max] of its profile (sample mode) or [min_value, max_value] of its
\* declaration (definition mode).
C3_RangeContainment ==
    Generated =>
        /\ generation_mode = "FROM_DEFINITION" =>
               \A i \in DOMAIN customer_variables :
                   (customer_variables[i].data_type = "numerical" /\ Effective(i)) =>
                       \A r \in DOMAIN GeneratedFor(i) :
                           /\ customer_variables[i].min_value <= GeneratedFor(i)[r]
                           /\ GeneratedFor(i)[r] <= customer_variables[i].max_value
        /\ generation_mode = "FROM_SAMPLE" =>
               \A c \in DOMAIN sample_data[1] :
                   LET col == sample_data[1][c]
                   IN (Get(PatternOf(col), "type", "categorical") = "numerical"
                       /\ HasColumn(outcome.table, col.name)) =>
                          \A r \in DOMAIN ValuesOf(outcome.table, col.name) :
                              /\ PatternOf(col).statistics.min <= ValuesOf(outcome.table, col.name)[r]
                              /\ ValuesOf(outcome.table, col.name)[r] <= PatternOf(col).statistics.max

\* Every value generated for a categorical declaration is one of its possible_values.
DeclaredClosure ==
    generation_mode = "FROM_DEFINITION" =>
        \A i \in DOMAIN customer_variables :
            (customer_variables[i].data_type = "categorical" /\ Effective(i)) =>
                \A r \in DOMAIN GeneratedFor(i) :
                    GeneratedFor(i)[r] \in Range(customer_variables[i].possible_values)

\* C4 (as claimed): in sample mode every value generated for a categorical column
\* is one of the (up to 10) values of the profile's value_distribution; in
\* definition mode it is one of the declaration's possible_values.
C4_ClosureInProfile ==
    Generated =>
        /\ DeclaredClosure
        /\ generation_mode = "FROM_SAMPLE" =>
               \A c \in DOMAIN sample_data[1] :
                   LET col == sample_data[1][c]
                   IN (Get(PatternOf(col), "type", "none") = "categorical"
                       /\ HasColumn(outcome.table, col.name)) =>
                          \A r \in DOMAIN ValuesOf(outcome.table, col.name) :
                              \E d \in DOMAIN PatternOf(col).value_distribution :
                                  PatternOf(col).value_distribution[d].value
                                      = ValuesOf(outcome.table, col.name)[r]

\* C4 (amended): in sample mode every value generated for a column the generator
\* treats as categorical is one of the non-null cells of that column of the
\* stored sample; in definition mode it is one of the declaration's
\* possible_values.
C4_ClosureInSample ==
    Generated =>
        /\ DeclaredClosure
        /\ generation_mode = "FROM_SAMPLE" =>
               \A c \in DOMAIN sample_data[1] :
                   LET col == sample_data[1][c]
                   IN (Get(PatternOf(col), "type", "categorical") = "categorical"
                       /\ HasColumn(outcome.table, col.name)) =>
                          \A r \in DOMAIN ValuesOf(outcome.table, col.name) :
                              ValuesOf(outcome.table, col.name)[r] \in NonNullCells(col)

\* A categorical column of more than 10 distinct values has produced a value that
\* its profile does not record.
C4_Witness ==
    /\ Generated
    /\ generation_mode = "FROM_SAMPLE"
    /\ \E c \in DOMAIN sample_data[1] :
           LET col == sample_data[1][c]
           IN /\ Get(PatternOf(col), "type", "none") = "categorical"
              /\ PatternOf(col).cardinality > TopValues
              /\ HasColumn(outcome.table, col.name)
              /\ \E r \in DOMAIN ValuesOf(outcome.table, col.name) :
                     ValuesOf(outcome.table, col.name)[r]
                         \notin Range(PatternOf(col).unique_values)

\* A generate_data of a session in definition mode with a product has returned rows.
ProductRows ==
    /\ Generated
    /\ generation_mode = "FROM_DEFINITION"
    /\ primary_product /= <<>>

Flag(r) == ValuesOf(outcome.table, "compro_producto")[r]

ProductName(r) == ValuesOf(outcome.table, "producto_comprado")[r]

ProductCategory(r) == ValuesOf(outcome.table, "categoria_producto")[r]

Price(r) == ValuesOf(outcome.table, "precio_pagado")[r]

\* C5 (as claimed): per row, purchase flag false gives price 0, name "None" and
\* category "N/A"; flag true gives the product's name and category and a price
\* within price_range.
C5_Coupling ==
    ProductRows =>
        \A r \in 1..NumRows(outcome.table) :
            IF Flag(r)
            THEN /\ ProductName(r) = primary_product[1].name
                 /\ ProductCategory(r) = primary_product[1].category
                 /\ primary_product[1].price_range[1] <= Price(r)
                 /\ Price(r) <= primary_product[1].price_range[2]
            ELSE /\ Price(r) = 0
                 /\ ProductName(r) = <<"None">>
                 /\ ProductCategory(r) = <<"N/A">>

\* C5 (amended): per row, purchase flag false gives price 0, name "Ninguno" and
\* category "N/A"; flag true gives the product's name and category and a price
\* between the two ends of price_range, whichever is the larger.
C5_CouplingNinguno ==
    ProductRows =>
        \A r \in 1..NumRows(outcome.table) :
            IF Flag(r)
            THEN /\ ProductName(r) = primary_product[1].name
                 /\ ProductCategory(r) = primary_product[1].category
                 /\ Min2(primary_product[1].price_range[1], primary_product[1].price_range[2])
                        <= Price(r)
                 /\ Price(r)
                        <= Max2(primary_product[1].price_range[1], primary_product[1].price_range[2])
            ELSE /\ Price(r) = 0
                 /\ ProductName(r) = <<"Ninguno">>
                 /\ ProductCategory(r) = <<"N/A">>

\* One table holds a purchased row with a price above 0 and a row not purchased.
C5_Witness ==
    /\ ProductRows
    /\ \E r \in 1..NumRows(outcome.table) : Flag(r) /\ Price(r) > 0
    /\ \E r \in 1..NumRows(outcome.table) : ~Flag(r)

\* C6 (as claimed): every generated email holds exactly one '@', followed by a
\* domain of the profile's domain table (sample mode) or of the fixed domain
\* list (definition mode).
C6_EmailStructure ==
    Generated =>
        /\ generation_mode = "FROM_DEFINITION" =>
               \A i \in DOMAIN customer_variables :
                   (customer_variables[i].data_type = "email" /\ Effective(i)) =>
                       \A r \in DOMAIN GeneratedFor(i) :
                           /\ CountAt(GeneratedFor(i)[r]) = 1
                           /\ \E d \in DOMAIN EmailDomains :
                                  AfterFirstAt(GeneratedFor(i)[r]) = <<EmailDomains[d]>>
        /\ generation_mode = "FROM_SAMPLE" =>
               \A c \in DOMAIN sample_data[1] :
                   LET col == sample_data[1][c]
                   IN (Get(PatternOf(col), "type", "none") = "email"
                       /\ HasColumn(outcome.table, col.name)) =>
                          \A r \in DOMAIN ValuesOf(outcome.table, col.name) :
                              /\ CountAt(ValuesOf(outcome.table, col.name)[r]) = 1
                              /\ \E d \in DOMAIN PatternOf(col).domains :
                                     AfterFirstAt(ValuesOf(outcome.table, col.name)[r])
                                         = PatternOf(col).domains[d].value

\* C7: generate_data on a session with no mode reports "Debe analizar datos o
\* definir variables primero", returns the empty table, stores no generated
\* table and leaves the session as it was, still without a mode.
C7_NotReady ==
    [][(outcome'.op = "generate" /\ generation_mode = "None") =>
           /\ outcome'.err = ErrNotReady
           /\ outcome'.table = <<>>
           /\ generated_data' = <<>>
           /\ generation_mode' = "None"
           /\ UNCHANGED <<sample_data, metadata, patterns, customer_variables,
                          primary_product, generated_data>>]_vars

\* generate_data was called with a positive row count on a session that has
\* neither profiles nor declarations, and was refused.
C7_Witness ==
    /\ outcome.op = "generate"
    /\ outcome.n > 0
    /\ outcome.err = ErrNotReady
    /\ generation_mode = "None"
    /\ patterns = <<>>
    /\ customer_variables = <<>>

\* C8 (as claimed): generate_data with row_count <= 0 on a session with a mode
\* fails and returns no table built from the session's columns.
C8_InvalidArgument ==
    (outcome.op = "generate" /\ outcome.n <= 0 /\ generation_mode /= "None") =>
        /\ outcome.err /= "none"
        /\ outcome.table = <<>>

\* C9 (as claimed): every declaration held by a session in definition mode has a
\* non-empty possible_values if categorical and min_value <= max_value if
\* numerical.
C9_DeclarationValidity ==
    generation_mode = "FROM_DEFINITION" =>
        \A i \in DOMAIN customer_variables :
            /\ customer_variables[i].data_type = "categorical" =>
                   customer_variables[i].possible_values /= <<>>
            /\ customer_variables[i].data_type = "numerical" =>
                   customer_variables[i].min_value <= customer_variables[i].max_value

\* C10 (as claimed): the session holds the inputs of one mode only.
C10_ModeExclusivity ==
    /\ generation_mode = "FROM_SAMPLE" => customer_variables = <<>>
    /\ generation_mode = "FROM_DEFINITION" => (sample_data = <<>> /\ patterns = <<>>)

\* C10 (amended): an analyze_sample_data call leaves the declarations as they
\* were and, when it completes, sets the mode to FROM_SAMPLE; a
\* define_variables_interactive call leaves the sample and its profiles as they
\* were and, when it completes, sets the mode to FROM_DEFINITION.
C10_ModeSwitchRetains ==
    [][/\ outcome'.op = "analyze" =>
              /\ customer_variables' = customer_variables
              /\ outcome'.err = "none" => generation_mode' = "FROM_SAMPLE"
       /\ outcome'.op = "define_variables" =>
              /\ sample_data' = sample_data
              /\ patterns' = patterns
              /\ outcome'.err = "none" => generation_mode' = "FROM_DEFINITION"]_vars

\* Both modes' inputs are held at once, in each of the two modes' turn.
C10_Witness ==
    /\ outcome.op = "analyze"
    /\ outcome.err = "none"
    /\ generation_mode = "FROM_SAMPLE"
    /\ customer_variables /= <<>>
    /\ patterns /= <<>>

\* C11: a generate_data call that succeeds leaves as the stored table exactly the
\* table it returned; a call that fails, and every other operation, leaves the
\* stored table as it was.  So the stored table is always that of the last
\* successful generate_data call.
C11_TableReplacement ==
    [][IF outcome'.op = "generate" /\ outcome'.err = "none"
       THEN generated_data' = <<outcome'.table>>
       ELSE generated_data' = generated_data]_vars

\* A generate_data call has succeeded and the session stores the rows it returned.
C11_Witness ==
    /\ Generated
    /\ NumRows(outcome.table) = MaxRows
    /\ generated_data = <<outcome.table>>

\* The columns generate_data is to produce: those of the stored sample in sample
\* mode, the declared names in definition mode.
SessionColumns ==
    IF generation_mode = "FROM_SAMPLE"
    THEN {sample_data[1][c].name : c \in DOMAIN sample_data[1]}
    ELSE {customer_variables[i].name : i \in DOMAIN customer_variables}

\* C12 (as claimed): a generate_data call with row_count > 0 returns either the
\* empty table or a table that holds every column of the session, each with
\* row_count values.
C12_AtomicGeneration ==
    (outcome.op = "generate" /\ outcome.n > 0 /\ generation_mode /= "None") =>
        \/ outcome.table = <<>>
        \/ \A name \in SessionColumns :
               /\ HasColumn(outcome.table, name)
               /\ Len(ValuesOf(outcome.table, name)) = outcome.n

\* A source analyze_sample_data cannot load: a path that does not end in .csv or
\* .json, a file that cannot be read, a value that is neither path nor table.
UnsupportedFormat(source) ==
    \/ source.kind = "path" /\ source.ext \notin {"csv", "json"}
    \/ source.kind = "other"

Unreadable(source) ==
    source.kind = "path" /\ source.ext \in {"csv", "json"} /\ ~source.readable

\* C13: analyze_sample_data on a source of unsupported format reports "Formato de
\* archivo no soportado" / "Tipo de datos no soportado", on an unreadable file
\* the read error, and in both cases leaves the sample, its metadata, the
\* profiles and the mode as they were.
C13_LoadFailure ==
    [][\A source \in AllSources :
           ((UnsupportedFormat(source) \/ Unreadable(source)) /\ Analyze(source)) =>
               /\ outcome'.op = "analyze"
               /\ UnsupportedFormat(source) => outcome'.err \in {ErrFormat, ErrType}
               /\ Unreadable(source) => outcome'.err = "IOError"
               /\ UNCHANGED <<sample_data, metadata, patterns, generation_mode>>]_vars

\* A load has failed in a session that had analyzed a sample, which it still holds.
C13_Witness ==
    /\ outcome.op = "analyze"
    /\ outcome.err \in {ErrFormat, ErrType, "IOError"}
    /\ generation_mode = "FROM_SAMPLE"
    /\ sample_data /= <<>>
    /\ patterns /= <<>>

ProductColumnNames ==
    <<"compro_producto", "producto_comprado", "categoria_producto", "precio_pagado">>

\* One column per column of the stored sample, or one per declaration followed
\* by the product's four when the session has a product.
DeclaredSchema ==
    IF generation_mode = "FROM_SAMPLE"
    THEN [c \in DOMAIN sample_data[1] |-> sample_data[1][c].name]
    ELSE [i \in DOMAIN customer_variables |-> customer_variables[i].name]
         \o (IF primary_product /= <<>> THEN ProductColumnNames ELSE <<>>)

\* C14 (as claimed): the columns of a generated table are, in order, one per
\* profiled column or per declaration, followed by the four product columns
\* when a product is present.
C14_SchemaOrder ==
    Generated => ColumnNames(outcome.table) = DeclaredSchema

\* Two generate_data calls in a row, both successful.
Regenerated ==
    /\ outcome.op = "generate" /\ outcome.err = "none"
    /\ outcome'.op = "generate" /\ outcome'.err = "none"

\* Every declaration is a text variable and the session has no product.
OnlyText ==
    /\ generation_mode = "FROM_DEFINITION"
    /\ primary_product = <<>>
    /\ \A i \in DOMAIN customer_variables : customer_variables[i].data_type = "text"

AllNull(col) == col.values /= <<>> /\ col.nulls = DOMAIN col.values

\* C16 (as claimed): a sample column with no non-null value is profiled as
\* categorical with an empty distribution, and generate_data with row_count > 0
\* succeeds and gives that column the placeholders "<column>_<i>", one per row.
C16_EmptyFallback ==
    (outcome.op = "generate" /\ outcome.n > 0 /\ generation_mode = "FROM_SAMPLE") =>
        \A c \in DOMAIN sample_data[1] :
            LET col == sample_data[1][c]
            IN (AllNull(col) /\ col.dtype = "object" /\ col.name \in DOMAIN patterns) =>
                   /\ PatternOf(col).type = "categorical"
                   /\ PatternOf(col).value_distribution = <<>>
                   /\ outcome.err = "none"
                   /\ HasColumn(outcome.table, col.name)
                   /\ ValuesOf(outcome.table, col.name)
                          = [i \in 1..outcome.n |-> <<col.name, "_">> \o Digits(i - 1)]

\* C17 (as claimed): the table a session's generate_data returns is the table
\* the same call returns when the session runs alone, whatever the calls of
\* the other sessions of the process that ran between its random draws.
C17_SessionIsolation ==
    \A s \in Sessions :
        agents[s].returned /= <<>> =>
            agents[s].returned[1].table =
                generate_from_definition_advanced(agents[s].customer_variables, <<>>,
                    agents[s].returned[1].n, agents[s].returned[1].seed, 0).table

HasProductColumns(t) == \A c \in DOMAIN ProductColumnNames : HasColumn(t, ProductColumnNames[c])

HasNoProductColumn(t) == \A c \in DOMAIN ProductColumnNames : ~HasColumn(t, ProductColumnNames[c])

\* C18: a table generate_data returns holds the four product columns when the
\* session is in definition mode and has a product, and none of them otherwise:
\* in particular a session in sample mode never outputs them, even with a
\* product defined.
C18_ProductColumns ==
    Generated =>
        IF generation_mode = "FROM_DEFINITION" /\ primary_product /= <<>>
        THEN HasProductColumns(outcome.table)
        ELSE HasNoProductColumn(outcome.table)

\* A session that has a product and declarations has generated rows in sample
\* mode, and the table holds no product column.
C18_Witness ==
    /\ Generated
    /\ generation_mode = "FROM_SAMPLE"
    /\ primary_product /= <<>>
    /\ customer_variables /= <<>>
    /\ NumRows(outcome.table) > 0
    /\ HasNoProductColumn(outcome.table)

\* C19 (as claimed): in definition mode with a product of purchase probability
\* 0, generate_data with row_count > 0 returns row_count rows, all of them with
\* the purchase flag false and price 0.
C19_ZeroProbability ==
    (/\ outcome.op = "generate"
     /\ outcome.n > 0
     /\ generation_mode = "FROM_DEFINITION"
     /\ primary_product /= <<>>
     /\ primary_product[1].purchase_probability = 0) =>
        /\ NumRows(outcome.table) = outcome.n
        /\ \A r \in 1..NumRows(outcome.table) : ~Flag(r) /\ Price(r) = 0

\* The numeric columns of the stored sample that have a profile.
NumericProfiled ==
    IF sample_data = <<>> THEN {}
    ELSE {c \in DOMAIN sample_data[1] :
              /\ sample_data[1][c].dtype = "number"
              /\ sample_data[1][c].name \in DOMAIN patterns
              /\ PatternOf(sample_data[1][c]).type = "numerical"}

Families == {"exponential", "normal", "uniform"}

\* C20: the profile of a numeric column records exponential when the minimum
\* of its non-null values is >= 0 and their skewness is > 1, otherwise normal
\* when the absolute skewness is < 0.5, otherwise uniform; a negative minimum
\* never gives exponential, and every numeric profile records exactly one of
\* the three families.
C20_DistributionSelection ==
    \A c \in NumericProfiled :
        LET col == sample_data[1][c]
            non_null == DropNa(col)
            chosen == PatternOf(col).probable_distribution
        IN /\ chosen \in Families
           /\ chosen = "exponential" <=> (SeqMin(non_null) >= 0 /\ SkewAboveOne(non_null))
           /\ chosen = "normal" <=>
                  (~(SeqMin(non_null) >= 0 /\ SkewAboveOne(non_null)) /\ SkewBelowHalf(non_null))
           /\ chosen = "uniform" <=>
                  (~(SeqMin(non_null) >= 0 /\ SkewAboveOne(non_null)) /\ ~SkewBelowHalf(non_null))
           /\ SeqMin(non_null) < 0 => chosen /= "exponential"

\* A column of skewness above 1 and a negative minimum has been profiled, and
\* its profile records uniform.
C20_Witness ==
    \E c \in NumericProfiled :
        LET non_null == DropNa(sample_data[1][c])
        IN /\ SeqMin(non_null) < 0
           /\ SkewAboveOne(non_null)
           /\ PatternOf(sample_data[1][c]).probable_distribution = "uniform"

\* The columns of strings of the stored sample that have a profile.
TextProfiled ==
    IF sample_data = <<>> THEN {}
    ELSE {c \in DOMAIN sample_data[1] :
              /\ sample_data[1][c].dtype = "object"
              /\ sample_data[1][c].strings
              /\ sample_data[1][c].name \in DOMAIN patterns}

SomeAt(col) == \E v \in NonNullCells(col) : ContainsAt(v)

\* Some non-null value matches the pattern of the profiler.
SomePhone(col) == \E v \in NonNullCells(col) : MatchesPhone(v)

\* Some non-null value consists only of digits, spaces, '+', '-', parentheses.
SomePhoneLike(col) ==
    \E v \in NonNullCells(col) :
        v /= <<>> /\ \A i \in DOMAIN v : v[i] \in PhoneChars \cup {"+"}

MeanLengthAbove(col, len) ==
    /\ DropNa(col) /= <<>>
    /\ SumSeq([i \in DOMAIN DropNa(col) |-> Len(DropNa(col)[i])]) > len * Len(DropNa(col))

FirstMatch(col, phone) ==
    IF SomeAt(col) THEN "email"
    ELSE IF phone THEN "phone"
    ELSE IF MeanLengthAbove(col, 50) THEN "long_text"
    ELSE "categorical"

\* C21 (as claimed): a column of strings is classified by the first matching
\* rule in the order email (some value contains '@'), phone (some value
\* consists only of digits, spaces, '+', '-' and parentheses), long_text (mean
\* length > 50), categorical.
C21_ClassificationOrder ==
    \A c \in TextProfiled :
        PatternOf(sample_data[1][c]).type = FirstMatch(sample_data[1][c],
                                                       SomePhoneLike(sample_data[1][c]))

\* C21 (amended): the same order, the phone rule being that some value is an
\* optional leading '+' followed by one or more digits, spaces, '-' and
\* parentheses; a '+' elsewhere in the value does not make it a phone.
C21_FirstMatch ==
    \A c \in TextProfiled :
        PatternOf(sample_data[1][c]).type = FirstMatch(sample_data[1][c],
                                                       SomePhone(sample_data[1][c]))

\* The stored sample has a column with an '@' value and a phone value profiled
\* as email, and a column with a phone value and a mean length above 50
\* profiled as phone.
C21_Witness ==
    /\ \E c \in TextProfiled :
           /\ SomeAt(sample_data[1][c]) /\ SomePhone(sample_data[1][c])
           /\ PatternOf(sample_data[1][c]).type = "email"
    /\ \E c \in TextProfiled :
           /\ SomePhone(sample_data[1][c]) /\ MeanLengthAbove(sample_data[1][c], 50)
           /\ PatternOf(sample_data[1][c]).type = "phone"

\* The last call was an analyze_sample_data that returned its analysis.
Analyzed == outcome.op = "analyze" /\ outcome.err = "none"

SemanticTypes == {"categorical", "numerical", "email", "phone", "long_text", "datetime", "text"}

\* C22 (as claimed): after a successful analyze_sample_data every column of the
\* sample has exactly one profile, no profile is of another column, and every
\* profile carries a semantic type of the seven, whatever the storage type of
\* the column.
C22_ProfileCompleteness ==
    Analyzed =>
        /\ DOMAIN patterns = {sample_data[1][c].name : c \in DOMAIN sample_data[1]}
        /\ \A c \in DOMAIN sample_data[1] :
               /\ "type" \in DOMAIN PatternOf(sample_data[1][c])
               /\ PatternOf(sample_data[1][c]).type \in SemanticTypes

\* The last call was an analyze_sample_data that loaded its source: the stored
\* sample is the table it read.
AnalyzeLoaded == outcome.op = "analyze" /\ outcome.err \in {"none", "AttributeError"}

\* The stored sample without its null cells.
DenseSample == [c \in DOMAIN sample_data[1] |-> WithoutNulls(sample_data[1][c])]

\* C23 (as claimed): profiling does not fail because of null cells, and the
\* profiles are those of the same columns with the null cells removed: when the
\* table without its null cells can be profiled, the analysis of the table
\* succeeds and stores exactly those profiles.
C23_NullsDropped ==
    (AnalyzeLoaded /\ extract_advanced_patterns(DenseSample).ok) =>
        /\ outcome.err = "none"
        /\ patterns = extract_advanced_patterns(DenseSample).patterns

\* The datetime columns of the stored sample whose profile records a range.
DatetimeRanged ==
    IF sample_data = <<>> THEN {}
    ELSE {c \in DOMAIN sample_data[1] :
              /\ sample_data[1][c].dtype = "datetime"
              /\ sample_data[1][c].name \in DOMAIN patterns
              /\ "date_range" \in DOMAIN PatternOf(sample_data[1][c])}

\* C24 (as claimed): in sample mode, for every datetime column with a recorded
\* range, generate_data with row_count > 0 succeeds and every generated
\* timestamp lies between the range's minimum and maximum, also when both fall
\* on the same day.
C24_DatetimeContainment ==
    (outcome.op = "generate" /\ outcome.n > 0 /\ generation_mode = "FROM_SAMPLE") =>
        \A c \in DatetimeRanged :
            LET col == sample_data[1][c]
                range_min == ToDatetime(PatternOf(col).date_range.min)
                range_max == ToDatetime(PatternOf(col).date_range.max)
            IN /\ outcome.err = "none"
               /\ HasColumn(outcome.table, col.name)
               /\ \A i \in DOMAIN ValuesOf(outcome.table, col.name) :
                      /\ range_min <= ValuesOf(outcome.table, col.name)[i]
                      /\ ValuesOf(outcome.table, col.name)[i] <= range_max

\* The names of the columns the generator of the session's mode fills with
\* phone numbers.
PhoneNames ==
    IF generation_mode = "FROM_SAMPLE"
    THEN {sample_data[1][c].name : c \in {d \in DOMAIN sample_data[1] :
              Get(PatternOf(sample_data[1][d]), "type", "categorical") = "phone"}}
    ELSE {customer_variables[i].name : i \in {j \in DOMAIN customer_variables :
              customer_variables[j].data_type = "phone" /\ Effective(j)}}

DecimalDigits == {"0", "1", "2", "3", "4", "5", "6", "7", "8", "9"}

\* C25: every generated phone value, in both modes, is "+34-6" followed by
\* exactly 8 decimal digits, and matches the phone pattern of the profiler.
C25_PhoneFormat ==
    Generated =>
        \A name \in PhoneNames :
            /\ HasColumn(outcome.table, name)
            /\ \A i \in DOMAIN ValuesOf(outcome.table, name) :
                   LET v == ValuesOf(outcome.table, name)[i]
                   IN /\ Len(v) = 5 + 8
                      /\ SubSeq(v, 1, 5) = <<"+", "3", "4", "-", "6">>
                      /\ \A j \in 6..Len(v) : v[j] \in DecimalDigits
                      /\ MatchesPhone(v)

\* A session that also holds a phone declaration has generated a full table of
\* phone numbers from a sample whose column was profiled as phone.
C25_Witness ==
    /\ Generated
    /\ generation_mode = "FROM_SAMPLE"
    /\ PhoneNames /= {}
    /\ NumRows(outcome.table) = MaxRows
    /\ \E i \in DOMAIN customer_variables : customer_variables[i].data_type = "phone"

\* C26: generate_data, whether it succeeds or fails, leaves the mode, the
\* sample, the profiles, the declarations and the product as they were; a
\* failing call also leaves the stored generated table as it was and returns
\* an empty table.
C26_GenerateFrame ==
    [][outcome'.op = "generate" =>
           /\ UNCHANGED <<generation_mode, sample_data, patterns, customer_variables,
                          primary_product>>
           /\ outcome'.err /= "none" =>
                  (generated_data' = generated_data /\ outcome'.table = <<>>)]_vars

\* A call of generate_data has failed in a session that holds a sample, its
\* profiles, declarations, a product and a table generated earlier.
C26_Witness ==
    /\ outcome.op = "generate"
    /\ outcome.err /= "none"
    /\ outcome.table = <<>>
    /\ generation_mode /= "None"
    /\ sample_data /= <<>>
    /\ patterns /= <<>>
    /\ customer_variables /= <<>>
    /\ primary_product /= <<>>
    /\ generated_data /= <<>>
    /\ NumRows(generated_data[1]) > 0

\* C27 (as claimed): an analyze_sample_data that fails leaves the sample, the
\* metadata, the profiles and the mode as they were before the call; and in
\* every state with mode FROM_SAMPLE the keys of the profile map are exactly
\* the columns of the stored sample.
C27_AllOrNothing ==
    [][/\ (outcome'.op = "analyze" /\ outcome'.err /= "none") =>
              UNCHANGED <<sample_data, metadata, patterns, generation_mode>>
       /\ generation_mode' = "FROM_SAMPLE" =>
              DOMAIN patterns' = {sample_data'[1][c].name : c \in DOMAIN sample_data'[1]}]_vars

\* The conversation history stored for a session ([] when it has no context).
History(contexts, session_id) ==
    IF contexts[session_id] = <<>> THEN <<>>
    ELSE contexts[session_id][1].conversation_messages

\* C28 (as claimed): the history stored for a session holds the user message
\* of every handle_message call for it that has completed successfully, also
\* when two calls for the session were interleaved at the await; and a call
\* that fails leaves the stored history as it was.
C28_ConversationMemory ==
    [][/\ \A t \in TaskIds :
              (tasks'[t].kind = "message" /\ tasks'[t].pc = "done") =>
                  \E i \in DOMAIN History(SESSION_CONTEXTS', tasks'[t].session_id) :
                      History(SESSION_CONTEXTS', tasks'[t].session_id)[i]
                          = UserMessage(tasks'[t].message)
       /\ \A t \in TaskIds :
              (tasks[t].pc = "awaiting" /\ tasks'[t].pc = "failed") =>
                  UNCHANGED SESSION_CONTEXTS]_vars

\* The events a run yields between its start and its terminal event.
ContentEvents == {"content_block_delta", "agent_change", "tool_call", "tool_result"}

TerminalEvents == {"message_done", "error_event"}

\* The events of task t follow the protocol of a stream.
StreamOrdered(task) ==
    /\ \A i \in DOMAIN task.events :
           task.events[i] \in ContentEvents =>
               \E j \in 1..(i - 1) : task.events[j] = "message_start"
    /\ \A i \in DOMAIN task.events :
           task.events[i] \in TerminalEvents => i = Len(task.events)
    /\ task.pc = "closed" =>
           /\ task.events /= <<>>
           /\ task.events[Len(task.events)] \in TerminalEvents
    /\ task.pc /= "closed" =>
           \A i \in DOMAIN task.events : task.events[i] \notin TerminalEvents

\* C29: in every run of handle_message_stream message_start comes before any
\* content_block_delta, agent_change, tool_call or tool_result; a run that has
\* ended yielded exactly one terminal event, message_done or error_event, as
\* its last event, and a run that has not ended yielded none; and in the step
\* that yields message_done the session's stored history is the input list of
\* that run's result.
C29_StreamProtocol ==
    [][\A t \in TaskIds :
           tasks'[t].kind = "stream" =>
               /\ StreamOrdered(tasks'[t])
               /\ (/\ tasks[t].pc /= "closed"
                   /\ tasks'[t].pc = "closed"
                   /\ tasks'[t].events[Len(tasks'[t].events)] = "message_done") =>
                      History(SESSION_CONTEXTS', tasks'[t].session_id)
                          = ToInputList(tasks'[t].full_input)]_vars

\* A run ended with message_done after a text delta and a tool call, with
\* its input list stored as the session's history, while a handle_message
\* call for the same session was awaiting its run.
C29_Witness ==
    \E t, u \in TaskIds :
        /\ tasks[t].kind = "stream"
        /\ tasks[t].pc = "closed"
        /\ tasks[t].events
               = <<"message_start", "content_block_delta", "tool_call", "message_done">>
        /\ History(SESSION_CONTEXTS, tasks[t].session_id) = ToInputList(tasks[t].full_input)
        /\ tasks[u].kind = "message"
        /\ tasks[u].pc = "awaiting"
        /\ tasks[u].session_id = tasks[t].session_id

\* The fields of a context that generate_synthetic_data_with_sdv writes.
GenerationFields(ctx) ==
    <<ctx.generated_file_path, ctx.generated_file_id, ctx.generated_rows,
      ctx.last_model_used, ctx.processing_history>>

\* C30: a call of generate_synthetic_data_with_sdv returns success = false
\* whenever no file was analyzed before it, num_rows <= 0, num_rows > 100000
\* or model_type is not GaussianCopula, CTGAN, CopulaGAN or TVAE; a call that
\* returns success = false leaves generated_file_path, generated_file_id,
\* generated_rows, last_model_used and processing_history as they were; and
\* a call that returns success = true sets the four fields from its
\* arguments and appends exactly one entry to processing_history.
C30_AnalyzeBeforeGenerate ==
    [][(/\ tool_return' /= <<>>
        /\ tool_return'[1].tool = "generate_synthetic_data_with_sdv") =>
           LET ret == tool_return'[1]
           IN /\ (\/ context.analyzed_file_path = <<>>
                  \/ \A i \in DOMAIN context.processing_history :
                         context.processing_history[i].action /= "csv_analyzed"
                  \/ ret.call.num_rows <= 0
                  \/ ret.call.num_rows > 100000
                  \/ ret.call.model_type
                         \notin {"GaussianCopula", "CTGAN", "CopulaGAN", "TVAE"})
                     => ~ret.success
              /\ ~ret.success => GenerationFields(context') = GenerationFields(context)
              /\ ret.success =>
                     /\ context'.generated_file_path /= <<>>
                     /\ context'.generated_file_id = <<ret.file_id>>
                     /\ context'.generated_rows = <<ret.call.num_rows>>
                     /\ context'.last_model_used = <<ret.call.model_type>>
                     /\ Len(context'.processing_history)
                            = Len(context.processing_history) + 1
                     /\ SubSeq(context'.processing_history, 1,
                               Len(context.processing_history))
                            = context.processing_history
                     /\ context'.processing_history[Len(context'.processing_history)].action
                            = "synthetic_data_generated"]_vars

\* After an analysis, a call for 100000 rows succeeded and a later call with
\* an unsupported model failed, leaving the fields of the first.
C30_Witness ==
    /\ tool_return /= <<>>
    /\ tool_return[1].tool = "generate_synthetic_data_with_sdv"
    /\ ~tool_return[1].success
    /\ tool_return[1].error = "model_type"
    /\ context.generated_rows = <<100000>>
    /\ context.last_model_used = <<"TVAE">>
    /\ Len(context.processing_history) = 2
    /\ context.processing_history[1].action = "csv_analyzed"
    /\ context.processing_history[2].action = "synthetic_data_generated"

====
